---- MODULE Spec2Model ----
(***************************************************************************)
(* Verification model of the ko:: namespace utilities (koproc.hpp,         *)
(* kons_clone.hpp, kons.hpp, kofd.hpp, overlayns.cpp, steamns.cpp).        *)
(*                                                                         *)
(* The module holds several state machines that share one set of          *)
(* variables.  Each specification drives one group of variables and       *)
(* leaves the other groups at their idle values:                          *)
(*   SpecClone / SpecCloneFair : uvclone, vclone, unshare_single and the  *)
(*                               closures run by the clone trampolines    *)
(*   SpecChildRef              : ko::proc::child_ref                      *)
(*   SpecFd                    : ko::fd::fd                               *)
(*   SpecSem                   : ko::proc::sync::semapair                 *)
(*   SpecCv                    : ko::util::cvshort                        *)
(*   SpecSn / SpecSnFair       : main of steamns and its symlink          *)
(*   SpecReap / SpecReapFair   : nsproc::pid1                             *)
(*   SpecOv                    : main of overlayns and its parsers        *)
(*   SpecUs                    : unshare_single with the ids it writes    *)
(*   SpecPo                    : ko::proc::popen_impl                     *)
(*   SpecIo                    : ko::fd::read, write and the timed read   *)
(*   SpecMd                    : ko::fd::makedirs                         *)
(*   SpecRl                    : ko::fd::readlink, readlink_or_path       *)
(*   SpecCp / SpecCpFair       : ko::fd::copy0, fcopy, fcopy_raw          *)
(*   SpecMc                    : ko::ns::mount::mount_core                *)
(*   SpecPv / SpecPvFair       : nsproc_create mounts, pivot_root         *)
(*   SpecMs                    : mount_spec::execute                      *)
(*   SpecSs / SpecSsFair       : str_split of overlayns                   *)
(*   SpecXd                    : the X11 bind of mount_gui                *)
(*   SpecDc                    : do_clone: owner of box and stack         *)
(***************************************************************************)
EXTENDS Integers, Sequences, FiniteSets, TLC

\* ------------------------------------------------------------------------
\* Bounds of the model
\* ------------------------------------------------------------------------
\* longest recipe handed to the overlayns child
MaxRecipe == 2
\* child_ref objects that can exist at once
MaxRefs == 2
\* child processes (and cleanup closures) that can be created
MaxKids == 2
\* ko::fd::fd objects that can exist at once
MaxFdObjs == 2
\* size of the process's descriptor table
MaxFd == 3
\* semapair handles that can exist at once
MaxHandles == 3
\* post() calls per endpoint during a run
MaxPosts == 2
\* then/ifthen calls in one cvshort chain
MaxChain == 3

\* ------------------------------------------------------------------------
\* Program constants
\* ------------------------------------------------------------------------
EINVAL == 22
ENOMEM == 12
ENOENT == 2
\* exit code of die_errno in exec_app
ExitCwd == 50
\* mount_spec::execute's "mountpoint" error
ErrMountpoint == 41

\* values errno takes after a failed system call in the model
ErrnoVals == {ENOENT, EINVAL}

VARIABLES
    \* ---- clone group -------------------------------------------------
    caller,     \* which program drives the clone wrappers
    cfg,        \* the configuration captured by the closure
    ppc,        \* parent's position
    cpc,        \* child's position ("none" until cloned)
    sems,       \* the two semaphores of the pair made by uvclone
    res,        \* parent: the int returned beside the child_ref
    perrno,     \* parent: errno
    cpid,       \* parent: proc._pid of the child_ref returned by do_clone
    cret,       \* child: value returned by the closure / passed to exit
    stepIdx,    \* child: index of the next recipe step (overlayns)
    stepLog,    \* child: the recipe steps executed so far, with their results
    nsFuture,   \* values posted to steamns' ns_future report
    log,        \* history of handshake events and id-map write attempts
    \* ---- child_ref group ---------------------------------------------
    cref,       \* the child_ref objects: live, _pid, cleanup, _done, _status
    kids,       \* the child processes: unborn, running, zombie, reaped
    invoked,    \* how often each cleanup closure has been called
    hist,       \* per object: what last decided whether it owns a closure
    lastOp,     \* the last operation, with what the object held before it
    \* ---- fd group ----------------------------------------------------
    fdobj,      \* the ko::fd::fd objects: live, _fd
    openFds,    \* the descriptors that are open in the process
    rawOut,     \* descriptors handed to the caller by fd::move()
    badClose,   \* a wrapper called ::close on a descriptor that was not open
    lastFdOp,   \* the last operation on an fd object and its source object
    \* ---- semapair group ----------------------------------------------
    hnd,        \* the semapair handles: state, sems pointer, offset
    pair,       \* the backing semaphore_pair: state, shared, refs
    psem,       \* the values of the pair's two semaphores
    posts,      \* post() calls made through handles of each offset
    waits,      \* wait() calls that returned, per offset
    releases,   \* how often the backing storage was released
    crashed,    \* a null semaphore_pair pointer was dereferenced
    \* ---- cvshort group --------------------------------------------
    cv,         \* the cvshort object: _state, _where, and whether the last call ran its callable
    cvLog,      \* per call of the chain: callable invoked?, the code and label it yields
    \* ---- steamns main group ---------------------------------------
    mpc,        \* steamns main: position of the driver
    mconf,      \* steamns main: mode (ns_create / ns_path), dummy_mode, what ns_path names
    link,       \* the namespace symlink at ns_path: absent, live, stale
    nsFd,       \* ns_path_fd: none, valid, invalid
    mfut,       \* ns_future: none, null, alloc, destroyed
    pfut,       \* parent_future is set (the process is the auto-spawned daemon)
    pjoin,      \* auto-spawn: the process that waits on parent_future, and the values posted to it
    mposted,    \* the child has posted its setup report to ns_future
    mchild,     \* the namespace child: none, setup, ready, exited
    mproc,      \* proc._pid of main's child_ref
    mret,       \* what main returned or the exit code it died with; 0 - 1000 while running
    mdid,       \* what the driver has done so far
    staleSeen,  \* the join path found the symlink dangling
    \* ---- pid1 reaper group ----------------------------------------
    rpc,        \* pid1: position in the function
    alive,      \* processes of the namespace other than pid1 that are running
    zombies,    \* exited processes waiting for pid1 to reap them
    spawned,    \* processes that have entered the namespace so far
    sigPending, \* SIGCHLD is pending (readable on the signalfd)
    rret,       \* what pid1 returned
    lastCount,  \* numeric /proc entries seen by the last check
    drained,    \* the reap loop has run since the last select wake-up
    woke,       \* how the last select returned: none, sigchld, timeout
    \* ---- overlayns main group -------------------------------------
    opc,        \* overlayns main: position
    nargs,      \* options taken from the command line so far
    recipe,     \* cfg.recipe: the kinds of the steps pushed so far
    cleanup,    \* cfg.cleanup: the temporary directories registered
    tmpdirs,    \* temporary directories of this run that exist on disk
    oret,       \* exit code of overlayns
    perr,       \* message of the first parse error of the last spec
    shortSpec,  \* a mount spec with fewer than three fields was parsed
    cloned,     \* uvclone_single has been called
    ospec,      \* the options of the last -o argument and its index
    \* ---- unshare_single group -------------------------------------
    upc,        \* unshare_single: position
    ucfg,       \* unshare_single: the arguments uid, gid, flags
    cred,       \* effective uid and gid of the process as geteuid/getegid report them
    host,       \* effective uid and gid of the process in the parent user namespace
    ulocal,     \* the locals euid and egid
    unshared,   \* flags of the unshare(2) call that succeeded
    setgroups,  \* /proc/self/setgroups: allow or deny
    uwrites,    \* the writes attempted so far: file, content, whether it succeeded
    ures,       \* what unshare_single returned
    \* ---- popen_impl group -----------------------------------------
    ppos,       \* popen_impl: position (parent or vfork child)
    ptab,       \* the parent's descriptor table: what each number refers to
    ptab0,      \* the parent's descriptor table when popen_impl was called
    ctab,       \* the vfork child's descriptor table
    pipefd,     \* the array pipefd[2][2]
    popid,      \* pid as vfork returned it in the parent
    popipe,     \* the pipe object returned: its rfd and wfd, or null
    \* ---- fd read/write group --------------------------------------
    iopc,       \* ko::fd::read / write: position (select, xfer, returned)
    iokind,     \* which wrapper runs: read, write, timed (read with a timeval)
    iosize,     \* the argument size
    have,       \* the local have
    moved,      \* bytes the syscalls have transferred so far
    ioerrno,    \* errno
    iolast,     \* what the last syscall reported: data, eof, error, timeout, selerr
    \* ---- makedirs group -------------------------------------------
    mdpath,     \* makedirs: the components of the argument path
    mddirs,     \* the directories that exist, each named by the positions of its name components
    mdfiles,    \* the non-directories that exist
    mddirs0,    \* the directories that existed when makedirs was called
    mdlevel,    \* length of the prefix the running call of makedirs works on
    mdphase,    \* stat (calls going down), mkdir (calls coming back), returned
    mdval,      \* the value the innermost finished call returned
    mdfailed,   \* a recursive call for a parent returned -1
    \* ---- readlink group -------------------------------------------
    rlpc,       \* readlink / readlink_or_path: position
    rlfile,     \* what the path names: symlink, other, missing; the target's length and whether it is relative
    rlok,       \* the argument notexist_ok
    rlsz,       \* the local sz of readlink
    rlstsize,   \* st.st_size, the size of extbuf
    rltarget,   \* what readlink returned: empty, or a target of some length
    rlerrno,    \* errno
    rlfailed,   \* a syscall on the symlink failed
    rlres,      \* what readlink_or_path returned: empty, path, target, joined
    \* ---- copy group -----------------------------------------------
    cppc,       \* copy0 / fcopy / fcopy_raw: position
    cpsize,     \* st.st_size of the source
    cplen,      \* the parameter len: bytes still to copy
    cpcopied,   \* bytes that arrived in the destination
    cplog,      \* the copy mechanisms called, in order, repeats left out
    cperrno,    \* errno after a failed copy_file_range or sendfile
    cpclone,    \* what ioctl(fd, FICLONE, fs) returned
    cpret,      \* what copy0 returned (FALSE until then)
    cpeof,      \* a copy_file_range or sendfile returned 0: the source is at its end
    cptick,     \* flips with every call of copy_file_range and sendfile
    \* ---- mount_core group -----------------------------------------
    mcpc,       \* mount_core: index of the next step of the chain; 7 at the return, 8 after it
    mcenv,      \* whether root is a mount point, and the directories that exist under root
    mccv,       \* the cvshort object of the chain
    mclog,      \* the mounts attempted, in order: label and result
    mcres,      \* the cvresult mount_core returned
    \* ---- nsproc_create mount chain group --------------------------
    pvpc,       \* nsproc_create: the next step of its mount chain, then report and done
    pvconf,     \* conf.mounts, conf.gui_mounts, conf.keep_root, and whether /run/media/$USER exists
    pvcv,       \* the cvshort object of nsproc_create's chain
    pvin,       \* the cvshort object of the chain inside mount::pivot_root
    pvlog,      \* the mount steps and syscalls carried out, in order: label and result
    pvret,      \* the value nsproc_create has for report: 1 after a failed chain, else 0
    pvfut,      \* the report future: given or null, values posted, semaphore, the waiting driver
    \* ---- mount_spec::execute group --------------------------------
    mspc,       \* mount_spec::execute: position
    msspec,     \* the mount_spec: type and mkdir
    mspoint,    \* the mountpoint on disk: dir, file, missing, orphan (its parent is missing too)
    mslog,      \* the filesystem calls and mounts made, in order
    msret,      \* what execute returned
    \* ---- str_split group ------------------------------------------
    sspc,       \* str_split: position in its loops
    ssstr,      \* the argument s
    sstart,     \* the local start
    snext,      \* the local next
    sparts,     \* the vector parts: its first MaxParts elements
    spushed,    \* push_back calls made, counted up to MaxParts + 1
    \* ---- mount_gui X11 group --------------------------------------
    xpc,        \* the X11 lambda of mount_gui: position
    xenv,       \* the environment: KONS_BIND_X11 and DISPLAY
    xdisplay,   \* the local display: what the pointer points at
    xcur,       \* the loop variable c: what is left to scan
    xfrag,      \* frags[0]: the directory, or the socket name
    xwarned,    \* the warning was printed
    \* ---- do_clone ownership group ---------------------------------
    dcpc,       \* vclone / svclone / uvclone with do_clone: position of the parent
    dccall,     \* the caller of do_clone and the clone flags it was given
    dcbox,      \* the heap box of (closure, arguments): none, allocated, freed
    dcstack,    \* the stack mapping: none, mapped, unmapped
    dcref,      \* the child_ref do_clone returned: pid, and whether it holds the cleanup closure
    dckid       \* the cloned child: none, running, entered, zombie, reaped

cloneVars == <<caller, cfg, ppc, cpc, sems, res, perrno, cpid, cret, stepIdx,
               stepLog, nsFuture, log>>

crefVars == <<cref, kids, invoked, hist, lastOp>>

fdVars == <<fdobj, openFds, rawOut, badClose, lastFdOp>>

semVars == <<hnd, pair, psem, posts, waits, releases, crashed>>

cvVars == <<cv, cvLog>>

snVars == <<mpc, mconf, link, nsFd, mfut, pfut, pjoin, mposted, mchild, mproc, mret, mdid, staleSeen>>

reapVars == <<rpc, alive, zombies, spawned, sigPending, rret, lastCount, drained, woke>>

ovVars == <<opc, nargs, recipe, cleanup, tmpdirs, oret, perr, shortSpec, cloned, ospec>>

usVars == <<upc, ucfg, cred, host, ulocal, unshared, setgroups, uwrites, ures>>

poVars == <<ppos, ptab, ptab0, ctab, pipefd, popid, popipe>>

ioVars == <<iopc, iokind, iosize, have, moved, ioerrno, iolast>>

mdVars == <<mdpath, mddirs, mdfiles, mddirs0, mdlevel, mdphase, mdval, mdfailed>>

rlVars == <<rlpc, rlfile, rlok, rlsz, rlstsize, rltarget, rlerrno, rlfailed, rlres>>

cpVars == <<cppc, cpsize, cplen, cpcopied, cplog, cperrno, cpclone, cpret, cpeof, cptick>>

mcVars == <<mcpc, mcenv, mccv, mclog, mcres>>

pvVars == <<pvpc, pvconf, pvcv, pvin, pvlog, pvret, pvfut>>

msVars == <<mspc, msspec, mspoint, mslog, msret>>

ssVars == <<sspc, ssstr, sstart, snext, sparts, spushed>>

xdVars == <<xpc, xenv, xdisplay, xcur, xfrag, xwarned>>

dcVars == <<dcpc, dccall, dcbox, dcstack, dcref, dckid>>

vars == <<cloneVars, crefVars, fdVars, semVars, cvVars, snVars, reapVars, ovVars, usVars, poVars, ioVars, mdVars, rlVars, cpVars, mcVars, pvVars, msVars, ssVars, xdVars, dcVars>>

\* what the actions of one group leave alone: the other groups
notClone == <<crefVars, fdVars, semVars, cvVars, snVars, reapVars, ovVars, usVars, poVars, ioVars, mdVars, rlVars, cpVars, mcVars, pvVars, msVars, ssVars, xdVars, dcVars>>

notCref == <<cloneVars, fdVars, semVars, cvVars, snVars, reapVars, ovVars, usVars, poVars, ioVars, mdVars, rlVars, cpVars, mcVars, pvVars, msVars, ssVars, xdVars, dcVars>>

notFd == <<cloneVars, crefVars, semVars, cvVars, snVars, reapVars, ovVars, usVars, poVars, ioVars, mdVars, rlVars, cpVars, mcVars, pvVars, msVars, ssVars, xdVars, dcVars>>

notSem == <<cloneVars, crefVars, fdVars, cvVars, snVars, reapVars, ovVars, usVars, poVars, ioVars, mdVars, rlVars, cpVars, mcVars, pvVars, msVars, ssVars, xdVars, dcVars>>

notCv == <<cloneVars, crefVars, fdVars, semVars, snVars, reapVars, ovVars, usVars, poVars, ioVars, mdVars, rlVars, cpVars, mcVars, pvVars, msVars, ssVars, xdVars, dcVars>>

notSn == <<cloneVars, crefVars, fdVars, semVars, cvVars, reapVars, ovVars, usVars, poVars, ioVars, mdVars, rlVars, cpVars, mcVars, pvVars, msVars, ssVars, xdVars, dcVars>>

notReap == <<cloneVars, crefVars, fdVars, semVars, cvVars, snVars, ovVars, usVars, poVars, ioVars, mdVars, rlVars, cpVars, mcVars, pvVars, msVars, ssVars, xdVars, dcVars>>

notOv == <<cloneVars, crefVars, fdVars, semVars, cvVars, snVars, reapVars, usVars, poVars, ioVars, mdVars, rlVars, cpVars, mcVars, pvVars, msVars, ssVars, xdVars, dcVars>>

notUs == <<cloneVars, crefVars, fdVars, semVars, cvVars, snVars, reapVars, ovVars, poVars, ioVars, mdVars, rlVars, cpVars, mcVars, pvVars, msVars, ssVars, xdVars, dcVars>>

notPo == <<cloneVars, crefVars, fdVars, semVars, cvVars, snVars, reapVars, ovVars, usVars, ioVars, mdVars, rlVars, cpVars, mcVars, pvVars, msVars, ssVars, xdVars, dcVars>>

notIo == <<cloneVars, crefVars, fdVars, semVars, cvVars, snVars, reapVars, ovVars, usVars, poVars, mdVars, rlVars, cpVars, mcVars, pvVars, msVars, ssVars, xdVars, dcVars>>

notMd == <<cloneVars, crefVars, fdVars, semVars, cvVars, snVars, reapVars, ovVars, usVars, poVars, ioVars, rlVars, cpVars, mcVars, pvVars, msVars, ssVars, xdVars, dcVars>>

notRl == <<cloneVars, crefVars, fdVars, semVars, cvVars, snVars, reapVars, ovVars, usVars, poVars, ioVars, mdVars, cpVars, mcVars, pvVars, msVars, ssVars, xdVars, dcVars>>

notCp == <<cloneVars, crefVars, fdVars, semVars, cvVars, snVars, reapVars, ovVars, usVars, poVars, ioVars, mdVars, rlVars, mcVars, pvVars, msVars, ssVars, xdVars, dcVars>>

notMc == <<cloneVars, crefVars, fdVars, semVars, cvVars, snVars, reapVars, ovVars, usVars, poVars, ioVars, mdVars, rlVars, cpVars, pvVars, msVars, ssVars, xdVars, dcVars>>

notPv == <<cloneVars, crefVars, fdVars, semVars, cvVars, snVars, reapVars, ovVars, usVars, poVars, ioVars, mdVars, rlVars, cpVars, mcVars, msVars, ssVars, xdVars, dcVars>>

notMs == <<cloneVars, crefVars, fdVars, semVars, cvVars, snVars, reapVars, ovVars, usVars, poVars, ioVars, mdVars, rlVars, cpVars, mcVars, pvVars, ssVars, xdVars, dcVars>>

notSs == <<cloneVars, crefVars, fdVars, semVars, cvVars, snVars, reapVars, ovVars, usVars, poVars, ioVars, mdVars, rlVars, cpVars, mcVars, pvVars, msVars, xdVars, dcVars>>

notXd == <<cloneVars, crefVars, fdVars, semVars, cvVars, snVars, reapVars, ovVars, usVars, poVars, ioVars, mdVars, rlVars, cpVars, mcVars, pvVars, msVars, ssVars, dcVars>>

notDc == <<cloneVars, crefVars, fdVars, semVars, cvVars, snVars, reapVars, ovVars, usVars, poVars, ioVars, mdVars, rlVars, cpVars, mcVars, pvVars, msVars, ssVars, xdVars>>

\* index selection that does not wrap: sems[2] taken for the second semaphore
semNoWrap(n) == IF n < 2 THEN n ELSE 1

\* ------------------------------------------------------------------------
\* semaphore_pair::sem and semapair::wait/post (koproc.hpp)
\* ------------------------------------------------------------------------
\* semaphore_pair::sem(n): index of the semaphore selected by n
sem(n) == n % 2

\* mutant of WaitIndex: wait() on the semaphore that post() uses
WaitIndexPeer(offset) == sem(offset + 1)

\* index of the semaphore that semapair::wait() of an endpoint decrements
WaitIndex(offset) == sem(offset)

\* mutant of PostIndex: post() on the endpoint's own semaphore
PostIndexOwn(offset) == sem(offset)

\* index of the semaphore that semapair::post() of an endpoint increments
PostIndex(offset) == sem(offset + 1)

\* offsets of the two endpoints returned by make_semapair
OffsetParent == 0
OffsetChild == 1

\* ------------------------------------------------------------------------
\* Clone group: configurations and helpers
\* ------------------------------------------------------------------------
Callers == {"overlayns", "steamns_create", "steamns_join", "unshare_single"}

\* the callers that go through uvclone_single
UvCallers == {"overlayns", "steamns_create"}

\* what the closure captures: the recipe length (overlayns), steamns'
\* nsproc::config flags, and whether the ns_future report pointer is set
Configs(c) ==
    CASE c = "overlayns" ->
            [nsteps : 0..MaxRecipe, mounts : {FALSE}, dummy : {FALSE},
             pwdEmpty : {TRUE}, report : {FALSE}]
      [] c = "steamns_create" ->
            [nsteps : {0}, mounts : BOOLEAN, dummy : BOOLEAN,
             pwdEmpty : BOOLEAN, report : BOOLEAN]
      [] c = "steamns_join" ->
            [nsteps : {0}, mounts : {FALSE}, dummy : {FALSE},
             pwdEmpty : BOOLEAN, report : {FALSE}]
      [] OTHER ->
            [nsteps : {0}, mounts : {FALSE}, dummy : {FALSE},
             pwdEmpty : {TRUE}, report : {FALSE}]

\* first position of the driver
ParentStart(c) ==
    CASE c \in UvCallers -> "uv_clone"
      [] c = "steamns_join" -> "j_setns_user"
      [] OTHER -> "us_unshare"

\* first position of the closure handed to the trampoline
ClosureStart(c) ==
    CASE c = "overlayns" -> "ov_recipe"
      [] c = "steamns_create" -> "nc_start"
      [] OTHER -> "jc_start"

\* results of one recipe step (mount_spec::execute / copy_spec::execute)
StepResults == {0, ErrMountpoint, EINVAL}

\* a logged event; tgt is the process an id-map write addresses (the pid in
\* /proc/<pid>/..., 0 for /proc/self) and 0 for every other event
EvTo(e, ok, tgt) == [ev |-> e, ok |-> ok, tgt |-> tgt]

Ev(e, ok) == EvTo(e, ok, 0)

LoggedTo(e, ok, tgt) == log' = Append(log, EvTo(e, ok, tgt))

Logged(e, ok) == LoggedTo(e, ok, 0)

SemUp(i) == sems' = [sems EXCEPT ![i] = @ + 1]

SemDown(i) == sems[i] > 0 /\ sems' = [sems EXCEPT ![i] = @ - 1]

InitCloneGroup ==
    /\ caller \in Callers
    /\ cfg \in Configs(caller)
    /\ ppc = ParentStart(caller)
    /\ cpc = "none"
    /\ sems = [i \in 0..1 |-> 0]
    /\ res = 0
    /\ perrno = 0
    /\ cpid = -1
    /\ cret = 0
    /\ stepIdx = 0
    /\ stepLog = <<>>
    /\ nsFuture = <<>>
    /\ log = <<>>

\* ------------------------------------------------------------------------
\* detail::do_clone (koproc.hpp): the child_ref's pid and the child's start
\* ------------------------------------------------------------------------
do_clone(entry) ==
    \/ \* stack mmap failed: return {-ENOMEM}
       /\ cpid' = -ENOMEM
       /\ cpc' = "none"
    \/ \* clone failed: box deleted, stack unmapped, return {pid}
       /\ cpid' = -1
       /\ cpc' = "none"
    \/ \* child started on the new stack
       /\ cpid' = 1
       /\ cpc' = entry

\* ------------------------------------------------------------------------
\* uvclone, parent side (kons_clone.hpp)
\* ------------------------------------------------------------------------
uvclone_clone ==
    /\ ppc = "uv_clone"
    /\ do_clone("c_entry")
    /\ res' = EINVAL
    /\ ppc' = IF cpid' > 0 THEN "uv_wait" ELSE "p_ret"
    /\ UNCHANGED notClone /\ UNCHANGED <<caller, cfg, sems, perrno, cret, stepIdx, stepLog, nsFuture, log>>

uvclone_wait ==
    /\ ppc = "uv_wait"
    /\ SemDown(WaitIndex(OffsetParent))
    /\ Logged("parent_wake", TRUE)
    /\ ppc' = "uv_set_uid"
    /\ UNCHANGED notClone /\ UNCHANGED <<caller, cfg, cpc, res, perrno, cpid, cret, stepIdx, stepLog, nsFuture>>

\* one id-map write of uvclone: on success go on to `next`, on failure
\* leave the nested ifs with errno set
uvclone_write(here, what, next, last) ==
    /\ ppc = here
    /\ \/ /\ LoggedTo(what, TRUE, cpid)
          /\ ppc' = next
          /\ res' = IF last THEN 0 ELSE res
          /\ UNCHANGED perrno
       \/ /\ LoggedTo(what, FALSE, cpid)
          /\ ppc' = "uv_errno"
          /\ perrno' \in ErrnoVals
          /\ UNCHANGED res
    /\ UNCHANGED notClone /\ UNCHANGED <<caller, cfg, cpc, sems, cpid, cret, stepIdx, stepLog, nsFuture>>

uvclone_set_uid == uvclone_write("uv_set_uid", "uid_map", "uv_setgroups", FALSE)

\* mutant of uvclone_setgroups: the result of disable_setgroups is ignored
uvclone_setgroups_unchecked ==
    /\ ppc = "uv_setgroups"
    /\ \E ok \in BOOLEAN : LoggedTo("setgroups", ok, cpid)
    /\ ppc' = "uv_set_gid"
    /\ UNCHANGED notClone /\ UNCHANGED <<caller, cfg, cpc, sems, res, perrno, cpid, cret, stepIdx, stepLog, nsFuture>>

uvclone_setgroups == uvclone_write("uv_setgroups", "setgroups", "uv_set_gid", FALSE)

uvclone_set_gid == uvclone_write("uv_set_gid", "gid_map", "uv_errno", TRUE)

\* mutant of uvclone_errno: return early, without the post, on a failed write
uvclone_errno_early ==
    /\ ppc = "uv_errno"
    /\ res' = IF res # 0 THEN perrno ELSE res
    /\ ppc' = IF res # 0 THEN "p_ret" ELSE "uv_post"
    /\ UNCHANGED notClone /\ UNCHANGED <<caller, cfg, cpc, sems, perrno, cpid, cret, stepIdx, stepLog, nsFuture, log>>

uvclone_errno ==
    /\ ppc = "uv_errno"
    /\ res' = IF res # 0 THEN perrno ELSE res
    /\ ppc' = "uv_post"
    /\ UNCHANGED notClone /\ UNCHANGED <<caller, cfg, cpc, sems, perrno, cpid, cret, stepIdx, stepLog, nsFuture, log>>

uvclone_post ==
    /\ ppc = "uv_post"
    /\ SemUp(PostIndex(OffsetParent))
    /\ Logged("parent_post", TRUE)
    /\ ppc' = "p_ret"
    /\ UNCHANGED notClone /\ UNCHANGED <<caller, cfg, cpc, res, perrno, cpid, cret, stepIdx, stepLog, nsFuture>>

\* ------------------------------------------------------------------------
\* detail::uvclone_entry and detail::vclone_entry: the trampolines
\* ------------------------------------------------------------------------
\* the closure returned v: the trampoline returns it to clone(2)
TrampolineReturn(v) ==
    /\ cpc' = "returned"
    /\ cret' = v

\* exit(r) called inside the closure (die_errno)
ChildExit(r) ==
    /\ cpc' = "exited"
    /\ cret' = r

\* the exec replaced the process image
ChildExec ==
    /\ cpc' = "execd"
    /\ UNCHANGED cret

\* copy the boxed tuple, then the post() half of sync.yield()
uvclone_entry_post ==
    /\ cpc = "c_entry"
    /\ SemUp(PostIndex(OffsetChild))
    /\ Logged("child_post", TRUE)
    /\ cpc' = "c_yield_wait"
    /\ UNCHANGED notClone /\ UNCHANGED <<caller, cfg, ppc, res, perrno, cpid, cret, stepIdx, stepLog, nsFuture>>

\* the wait() half of sync.yield(), then std::apply(f, args)
uvclone_entry_wait ==
    /\ cpc = "c_yield_wait"
    /\ SemDown(WaitIndex(OffsetChild))
    /\ Logged("fn_start", TRUE)
    /\ cpc' = ClosureStart(caller)
    /\ UNCHANGED notClone /\ UNCHANGED <<caller, cfg, ppc, res, perrno, cpid, cret, stepIdx, stepLog, nsFuture>>

vclone_entry ==
    /\ cpc = "v_entry"
    /\ Logged("fn_start", TRUE)
    /\ cpc' = ClosureStart(caller)
    /\ UNCHANGED notClone /\ UNCHANGED <<caller, cfg, ppc, sems, res, perrno, cpid, cret, stepIdx, stepLog, nsFuture>>

\* an exception of std::filesystem left the closure: std::terminate
ChildAbort ==
    /\ cpc' = "aborted"
    /\ UNCHANGED cret

\* ------------------------------------------------------------------------
\* overlayns main: the closure handed to uvclone_single
\* ------------------------------------------------------------------------
\* a recipe step that ran: its index, the code it returned, or that it threw
Ran(i, r, threw) == [idx |-> i, code |-> r, threw |-> threw]

\* the recipe loop without `if (res) return res;`
overlayns_step_continue ==
    /\ cpc = "ov_recipe"
    /\ stepIdx < cfg.nsteps
    /\ \E r \in StepResults :
          /\ Logged("step", r = 0)
          /\ stepLog' = Append(stepLog, Ran(stepIdx, r, FALSE))
          /\ stepIdx' = stepIdx + 1
          /\ UNCHANGED <<cpc, cret>>
    /\ UNCHANGED notClone /\ UNCHANGED <<caller, cfg, ppc, sems, res, perrno, cpid, nsFuture>>

\* one iteration of the recipe loop: step.execute()
overlayns_step ==
    /\ cpc = "ov_recipe"
    /\ stepIdx < cfg.nsteps
    /\ \/ \E r \in StepResults :
             /\ Logged("step", r = 0)
             /\ stepLog' = Append(stepLog, Ran(stepIdx, r, FALSE))
             /\ IF r # 0
                  THEN TrampolineReturn(r) /\ UNCHANGED stepIdx
                  ELSE /\ stepIdx' = stepIdx + 1
                       /\ UNCHANGED <<cpc, cret>>
       \/ \* fs::exists / fs::create_directories threw
          /\ Logged("step", FALSE)
          /\ stepLog' = Append(stepLog, Ran(stepIdx, 0, TRUE))
          /\ ChildAbort
          /\ UNCHANGED stepIdx
    /\ UNCHANGED notClone /\ UNCHANGED <<caller, cfg, ppc, sems, res, perrno, cpid, nsFuture>>

\* mutant of overlayns_exec: the closure ends in `return 0` after the exec
overlayns_exec_ret0 ==
    /\ cpc = "ov_recipe"
    /\ stepIdx = cfg.nsteps
    /\ \/ Logged("exec", TRUE) /\ ChildExec
       \/ Logged("exec", FALSE) /\ TrampolineReturn(0)
    /\ UNCHANGED notClone /\ UNCHANGED <<caller, cfg, ppc, sems, res, perrno, cpid, stepIdx, stepLog, nsFuture>>

\* return ::execvp(...)
overlayns_exec ==
    /\ cpc = "ov_recipe"
    /\ stepIdx = cfg.nsteps
    /\ \/ Logged("exec", TRUE) /\ ChildExec
       \/ Logged("exec", FALSE) /\ TrampolineReturn(-1)
    /\ UNCHANGED notClone /\ UNCHANGED <<caller, cfg, ppc, sems, res, perrno, cpid, stepIdx, stepLog, nsFuture>>

\* ------------------------------------------------------------------------
\* steamns: nsproc_create, exec_app, pid1, nsproc_join_parent/_child
\* ------------------------------------------------------------------------
\* report->post(v) when the report pointer is set
ReportPost(v) ==
    nsFuture' = IF cfg.report THEN Append(nsFuture, v) ELSE nsFuture

\* the mount chain failed: post 1, return xerror(where)
nsproc_create_fail ==
    /\ cpc = "nc_start"
    /\ cfg.mounts
    /\ Logged("mounts", FALSE)
    /\ \/ /\ ReportPost(1)
          /\ \E e \in ErrnoVals : TrampolineReturn(-e)
       \/ \* a std::filesystem call of the chain threw
          /\ UNCHANGED nsFuture
          /\ ChildAbort
    /\ UNCHANGED notClone /\ UNCHANGED <<caller, cfg, ppc, sems, res, perrno, cpid, stepIdx, stepLog>>

\* no mounts wanted or the chain succeeded: post 0, go on to the application
nsproc_create_ok ==
    /\ cpc = "nc_start"
    /\ Logged("mounts", TRUE)
    /\ ReportPost(0)
    /\ cpc' = IF cfg.dummy THEN "pid1" ELSE "ea_chdir"
    /\ UNCHANGED notClone /\ UNCHANGED <<caller, cfg, ppc, sems, res, perrno, cpid, cret, stepIdx, stepLog>>

\* exec_app up to the exec: chdir to home or to conf.pwd
exec_app_chdir ==
    /\ cpc = "ea_chdir"
    /\ \/ \* chdir done (home: result ignored; pwd: succeeded)
          /\ Logged("chdir", TRUE)
          /\ cpc' = "ea_exec"
          /\ UNCHANGED cret
       \/ \* chdir(conf.pwd) failed: die_errno(50, ...)
          /\ ~cfg.pwdEmpty
          /\ Logged("chdir", FALSE)
          /\ ChildExit(ExitCwd)
       \/ \* fs::create_directories(home) threw
          /\ cfg.pwdEmpty
          /\ Logged("chdir", FALSE)
          /\ ChildAbort
    /\ UNCHANGED notClone /\ UNCHANGED <<caller, cfg, ppc, sems, res, perrno, cpid, stepIdx, stepLog, nsFuture>>

\* execvpe(...); return xerror("exec")
exec_app_exec ==
    /\ cpc = "ea_exec"
    /\ \/ Logged("exec", TRUE) /\ ChildExec
       \/ /\ Logged("exec", FALSE)
          /\ \E e \in ErrnoVals : TrampolineReturn(-e)
    /\ UNCHANGED notClone /\ UNCHANGED <<caller, cfg, ppc, sems, res, perrno, cpid, stepIdx, stepLog, nsFuture>>

\* pid1: returns 0 when the namespace is empty, xerror(...) on a failed call
pid1 ==
    /\ cpc = "pid1"
    /\ \/ Logged("pid1", TRUE) /\ TrampolineReturn(0)
       \/ /\ Logged("pid1", FALSE)
          /\ \E e \in ErrnoVals : TrampolineReturn(-e)
    /\ UNCHANGED notClone /\ UNCHANGED <<caller, cfg, ppc, sems, res, perrno, cpid, stepIdx, stepLog, nsFuture>>

\* nsproc_join_parent going on to the next step after a failed setns
join_parent_setns_ignore(here, what, next) ==
    /\ ppc = here
    /\ \E ok \in BOOLEAN : Logged(what, ok)
    /\ ppc' = next
    /\ UNCHANGED <<res, cpid>>
    /\ UNCHANGED notClone /\ UNCHANGED <<caller, cfg, cpc, sems, perrno, cret, stepIdx, stepLog, nsFuture>>

\* one setns of nsproc_join_parent; a failure makes main's lambda
\* return {-1, e}
join_parent_setns(here, what, next) ==
    /\ ppc = here
    /\ \/ /\ Logged(what, TRUE)
          /\ ppc' = next
          /\ UNCHANGED <<res, cpid>>
       \/ /\ Logged(what, FALSE)
          /\ ppc' = "p_ret"
          /\ \E e \in ErrnoVals : res' = -e
          /\ cpid' = -1
    /\ UNCHANGED notClone /\ UNCHANGED <<caller, cfg, cpc, sems, perrno, cret, stepIdx, stepLog, nsFuture>>

nsproc_join_parent_user == join_parent_setns("j_setns_user", "setns_p_user", "j_setns_pid")

nsproc_join_parent_pid == join_parent_setns("j_setns_pid", "setns_p_pid", "j_vclone")

\* ko::proc::vclone(nsproc_join_child, ...); return {child, 0}
join_vclone ==
    /\ ppc = "j_vclone"
    /\ do_clone("v_entry")
    /\ res' = 0
    /\ ppc' = "p_ret"
    /\ UNCHANGED notClone /\ UNCHANGED <<caller, cfg, sems, perrno, cret, stepIdx, stepLog, nsFuture, log>>

nsproc_join_child ==
    /\ cpc = "jc_start"
    /\ \/ /\ Logged("setns_c_mnt", TRUE)
          /\ cpc' = "ea_chdir"
          /\ UNCHANGED cret
       \/ /\ Logged("setns_c_mnt", FALSE)
          /\ \E e \in ErrnoVals : TrampolineReturn(-e)
    /\ UNCHANGED notClone /\ UNCHANGED <<caller, cfg, ppc, sems, res, perrno, cpid, stepIdx, stepLog, nsFuture>>

\* ------------------------------------------------------------------------
\* unshare_single (kons.hpp)
\* ------------------------------------------------------------------------
unshare_single_unshare ==
    /\ ppc = "us_unshare"
    /\ \/ /\ Logged("unshare", TRUE)
          /\ ppc' = "us_set_uid"
          /\ UNCHANGED res
       \/ /\ Logged("unshare", FALSE)
          /\ ppc' = "p_ret"
          /\ res' = -1
    /\ UNCHANGED notClone /\ UNCHANGED <<caller, cfg, cpc, sems, perrno, cpid, cret, stepIdx, stepLog, nsFuture>>

\* one id-map write of unshare_single: return -1 as soon as one fails
unshare_single_write(here, what, next, last) ==
    /\ ppc = here
    /\ \/ /\ Logged(what, TRUE)
          /\ ppc' = next
          /\ res' = IF last THEN 0 ELSE res
       \/ /\ Logged(what, FALSE)
          /\ ppc' = "p_ret"
          /\ res' = -1
    /\ UNCHANGED notClone /\ UNCHANGED <<caller, cfg, cpc, sems, perrno, cpid, cret, stepIdx, stepLog, nsFuture>>

unshare_single_uid == unshare_single_write("us_set_uid", "uid_map", "us_setgroups", FALSE)

unshare_single_setgroups == unshare_single_write("us_setgroups", "setgroups", "us_set_gid", FALSE)

unshare_single_gid == unshare_single_write("us_set_gid", "gid_map", "p_ret", TRUE)

\* ------------------------------------------------------------------------
\* child_ref group (koproc.hpp)
\* ------------------------------------------------------------------------
Refs == 1..MaxRefs

Kids == 1..MaxKids

\* cleanup = 0 stands for an empty std::optional; closure k belongs to child k
NoRef == [live |-> FALSE, pid |-> -1, cleanup |-> 0, done |-> FALSE, status |-> -1]

NoOp == [op |-> "none", k |-> 0, hist |-> "none", done |-> FALSE,
         warned |-> FALSE]

Op(o, s, done, warned) ==
    [op |-> o, k |-> cref[s].cleanup, hist |-> hist[s],
     done |-> done, warned |-> warned]

IdleCref ==
    /\ cref = [s \in Refs |-> NoRef]
    /\ kids = [k \in Kids |-> "unborn"]
    /\ invoked = [k \in Kids |-> 0]
    /\ hist = [s \in Refs |-> "none"]
    /\ lastOp = NoOp

\* mutant of _check_clean: warn about every object that was not waited on
_check_clean_notdone(c) == ~c.done

\* child_ref::_check_clean: TRUE when the warning is printed
_check_clean(c) == c.cleanup # 0

\* child_ref(pid, cleanup_cb) as made by do_clone on success, and
\* child_ref(pid) as made by simple_spawn
child_ref_new(s, withCleanup) ==
    /\ UNCHANGED notCref
    /\ ~cref[s].live
    /\ \E k \in Kids :
          /\ kids[k] = "unborn"
          /\ \A j \in Kids : j < k => kids[j] # "unborn"
          /\ kids' = [kids EXCEPT ![k] = "running"]
          /\ cref' = [cref EXCEPT ![s] =
                [live |-> TRUE, pid |-> k,
                 cleanup |-> IF withCleanup THEN k ELSE 0,
                 done |-> FALSE, status |-> -1]]
    /\ hist' = [hist EXCEPT ![s] =
                   IF withCleanup THEN "created_cleanup" ELSE "created_bare"]
    /\ lastOp' = [NoOp EXCEPT !.op = "new"]
    /\ UNCHANGED invoked

\* child_ref(pid) with the negative pid of a failed do_clone / fork
child_ref_failed(s) ==
    /\ UNCHANGED notCref
    /\ ~cref[s].live
    /\ \E p \in {-1, -ENOMEM} :
          cref' = [cref EXCEPT ![s] = [NoRef EXCEPT !.live = TRUE, !.pid = p]]
    /\ hist' = [hist EXCEPT ![s] = "created_bare"]
    /\ lastOp' = [NoOp EXCEPT !.op = "new"]
    /\ UNCHANGED <<kids, invoked>>

\* mutant of child_ref_move_ctor: `o.cleanup = {}` is missing
child_ref_move_ctor_keep(d, s) ==
    /\ UNCHANGED notCref
    /\ ~cref[d].live
    /\ cref[s].live
    /\ cref' = [cref EXCEPT ![d] = cref[s],
                            ![s] = [cref[s] EXCEPT !.pid = -1]]
    /\ hist' = [hist EXCEPT ![d] = hist[s], ![s] = "moved_from"]
    /\ lastOp' = [NoOp EXCEPT !.op = "move_ctor"]
    /\ UNCHANGED <<kids, invoked>>

\* child_ref(child_ref &&o)
child_ref_move_ctor(d, s) ==
    /\ UNCHANGED notCref
    /\ ~cref[d].live
    /\ cref[s].live
    /\ cref' = [cref EXCEPT ![d] = cref[s],
                            ![s] = [cref[s] EXCEPT !.pid = -1, !.cleanup = 0]]
    /\ hist' = [hist EXCEPT ![d] = hist[s], ![s] = "moved_from"]
    /\ lastOp' = [NoOp EXCEPT !.op = "move_ctor"]
    /\ UNCHANGED <<kids, invoked>>

\* the fields of d after the assignments from o = cref[s] ...
AssignedFrom(c, d, s) ==
    [c EXCEPT ![d] = [live |-> TRUE, pid |-> c[s].pid, cleanup |-> c[s].cleanup,
                      done |-> c[s].done, status |-> c[s].status]]

\* ... and o after `o._pid = -1; o.cleanup = {}` (d and s may be one object)
ClearedSource(c, s) == [c EXCEPT ![s].pid = -1, ![s].cleanup = 0]

\* child_ref &operator =(child_ref &&o)
child_ref_move_assign(d, s) ==
    /\ UNCHANGED notCref
    /\ cref[d].live
    /\ cref[s].live
    /\ cref' = ClearedSource(AssignedFrom(cref, d, s), s)
    /\ hist' = [[hist EXCEPT ![d] = hist[s]] EXCEPT ![s] = "moved_from"]
    /\ lastOp' = Op("assign", d, FALSE, _check_clean(cref[d]))
    /\ UNCHANGED <<kids, invoked>>

\* ~child_ref()
child_ref_destroy(s) ==
    /\ UNCHANGED notCref
    /\ cref[s].live
    /\ cref' = [cref EXCEPT ![s] = NoRef]
    /\ hist' = [hist EXCEPT ![s] = "none"]
    /\ lastOp' = Op("destroy", s, FALSE, _check_clean(cref[s]))
    /\ UNCHANGED <<kids, invoked>>

\* the children waitpid(pid, ...) can report: pid > 0 names one child,
\* pid = -1 any child, pid < -1 a process group (none of ours)
Waitable(pid) ==
    IF pid > 0 THEN {k \in Kids : k = pid /\ kids[k] \in {"running", "zombie"}}
    ELSE IF pid = -1 THEN {k \in Kids : kids[k] \in {"running", "zombie"}}
    ELSE {}

\* `if (cleanup) { f(arg); cleanup = {}; }  _done = true;`
RunCleanup(s, st) ==
    /\ invoked' = IF cref[s].cleanup # 0
                    THEN [invoked EXCEPT ![cref[s].cleanup] = @ + 1]
                    ELSE invoked
    /\ cref' = [cref EXCEPT ![s].cleanup = 0, ![s].done = TRUE, ![s].status = st]

\* child_ref::wait() on an object that is not yet done: waitpid returns a
\* terminated child (reaped now) or fails with ECHILD; it blocks while the
\* children it could report are all running
child_ref_wait(s) ==
    /\ UNCHANGED notCref
    /\ cref[s].live
    /\ ~cref[s].done
    /\ \/ \E k \in Waitable(cref[s].pid) :
             /\ kids[k] = "zombie"
             /\ kids' = [kids EXCEPT ![k] = "reaped"]
             /\ RunCleanup(s, 0)
       \/ /\ Waitable(cref[s].pid) = {}
          /\ RunCleanup(s, cref[s].status)
          /\ UNCHANGED kids
    /\ hist' = [hist EXCEPT ![s] = "waited"]
    /\ lastOp' = Op("wait", s, TRUE, FALSE)

\* child_ref::wait() / poll() on an object that is already done
child_ref_done_again(s) ==
    /\ UNCHANGED notCref
    /\ cref[s].live
    /\ cref[s].done
    /\ \E o \in {"wait", "poll"} : lastOp' = Op(o, s, TRUE, FALSE)
    /\ UNCHANGED <<cref, kids, invoked, hist>>

\* child_ref::poll() on an object that is not yet done
child_ref_poll(s) ==
    /\ UNCHANGED notCref
    /\ cref[s].live
    /\ ~cref[s].done
    /\ \/ \* waitpid(..., WNOHANG) == 0: return {false, 0}
          /\ \E k \in Waitable(cref[s].pid) : kids[k] = "running"
          /\ \A k \in Waitable(cref[s].pid) : kids[k] = "running"
          /\ lastOp' = Op("poll", s, FALSE, FALSE)
          /\ UNCHANGED <<cref, kids, invoked, hist>>
       \/ \E k \in Waitable(cref[s].pid) :
             /\ kids[k] = "zombie"
             /\ kids' = [kids EXCEPT ![k] = "reaped"]
             /\ RunCleanup(s, 0)
             /\ hist' = [hist EXCEPT ![s] = "polled_done"]
             /\ lastOp' = Op("poll", s, TRUE, FALSE)
       \/ /\ Waitable(cref[s].pid) = {}
          /\ RunCleanup(s, cref[s].status)
          /\ hist' = [hist EXCEPT ![s] = "polled_done"]
          /\ lastOp' = Op("poll", s, TRUE, FALSE)
          /\ UNCHANGED kids

\* a child process terminates
kid_exit(k) ==
    /\ UNCHANGED notCref
    /\ kids[k] = "running"
    /\ kids' = [kids EXCEPT ![k] = "zombie"]
    /\ UNCHANGED <<cref, invoked, hist, lastOp>>

NextChildRef ==
    \/ \E s \in Refs, w \in BOOLEAN : child_ref_new(s, w)
    \/ \E s \in Refs : child_ref_failed(s)
    \/ \E d, s \in Refs : child_ref_move_ctor(d, s)
    \/ \E d, s \in Refs : child_ref_move_assign(d, s)
    \/ \E s \in Refs : child_ref_destroy(s)
    \/ \E s \in Refs : child_ref_wait(s)
    \/ \E s \in Refs : child_ref_done_again(s)
    \/ \E s \in Refs : child_ref_poll(s)
    \/ \E k \in Kids : kid_exit(k)

\* the clone group before any driver has started
IdleClone ==
    /\ caller = "none"
    /\ cfg = [nsteps |-> 0, mounts |-> FALSE, dummy |-> FALSE,
              pwdEmpty |-> TRUE, report |-> FALSE]
    /\ ppc = "idle"
    /\ cpc = "none"
    /\ sems = [i \in 0..1 |-> 0]
    /\ res = 0
    /\ perrno = 0
    /\ cpid = -1
    /\ cret = 0
    /\ stepIdx = 0
    /\ stepLog = <<>>
    /\ nsFuture = <<>>
    /\ log = <<>>

\* the fd group at rest
FdObjs == 1..MaxFdObjs

Descriptors == 0..(MaxFd - 1)

NoFd == [live |-> FALSE, fd |-> -1]

IdleFd ==
    /\ fdobj = [s \in FdObjs |-> NoFd]
    /\ openFds = {}
    /\ rawOut = {}
    /\ badClose = FALSE
    /\ lastFdOp = [op |-> "none", src |-> 0, dst |-> 0]

\* the semapair group at rest
Handles == 1..MaxHandles

NoHandle == [state |-> "none", ptr |-> 0, offset |-> 0, v |-> 0]

IdleSem ==
    /\ hnd = [h \in Handles |-> NoHandle]
    /\ pair = [state |-> "none", shared |-> FALSE, refs |-> 0]
    /\ psem = [i \in 0..1 |-> 0]
    /\ posts = [o \in 0..1 |-> 0]
    /\ waits = [o \in 0..1 |-> 0]
    /\ releases = 0
    /\ crashed = FALSE

\* the cvshort group at rest: a default-constructed cvshort, no call made
NullLabel == "nullptr"

EmptyCv == [state |-> 0, where |-> NullLabel, called |-> FALSE]

IdleCv ==
    /\ cv = EmptyCv
    /\ cvLog = <<>>

\* the steamns main group at rest
NoRet == 0 - 1000

IdleSn ==
    /\ mpc = "idle"
    /\ mconf = [mode |-> "plain", dummy |-> FALSE, path |-> "link"]
    /\ link = "absent"
    /\ nsFd = "none"
    /\ mfut = "none"
    /\ pfut = FALSE
    /\ pjoin = [state |-> "none", posts |-> <<>>]
    /\ mposted = FALSE
    /\ mchild = "none"
    /\ mproc = -1
    /\ mret = NoRet
    /\ mdid = {}
    /\ staleSeen = FALSE

\* the pid1 reaper group at rest
IdleReap ==
    /\ rpc = "idle"
    /\ alive = 0
    /\ zombies = 0
    /\ spawned = 0
    /\ sigPending = FALSE
    /\ rret = 0
    /\ lastCount = 0
    /\ drained = FALSE
    /\ woke = "none"

\* the overlayns main group at rest
NoErr == "none"

\* no -o argument parsed yet
NoSpec ==
    [n |-> 0, o |-> [tmp |-> FALSE, shadow |-> FALSE, lowerdir |-> FALSE,
                     upperdir |-> FALSE, workdir |-> FALSE, copyfrom |-> FALSE]]

IdleOv ==
    /\ opc = "idle"
    /\ nargs = 0
    /\ recipe = <<>>
    /\ cleanup = <<>>
    /\ tmpdirs = {}
    /\ oret = NoRet
    /\ perr = NoErr
    /\ shortSpec = FALSE
    /\ cloned = FALSE
    /\ ospec = NoSpec

\* the unshare_single group at rest
NoIds == [euid |-> 0, egid |-> 0]

IdleUs ==
    /\ upc = "idle"
    /\ ucfg = [uid |-> 0, gid |-> 0, flags |-> {}]
    /\ cred = NoIds
    /\ host = NoIds
    /\ ulocal = NoIds
    /\ unshared = {}
    /\ setgroups = "allow"
    /\ uwrites = <<>>
    /\ ures = 0

\* the popen_impl group at rest
MaxInherited == 2

PFds == 0..(MaxInherited + 4)

NullPipe == [rfd |-> -1, wfd |-> -1, null |-> TRUE]

ClosedTab == [n \in PFds |-> "closed"]

ZeroPipefd == [i \in 0..1 |-> [j \in 0..1 |-> 0]]

IdlePo ==
    /\ ppos = "idle"
    /\ ptab = ClosedTab
    /\ ptab0 = ClosedTab
    /\ ctab = ClosedTab
    /\ pipefd = ZeroPipefd
    /\ popid = 0
    /\ popipe = NullPipe

\* the fd read/write group at rest
IdleIo ==
    /\ iopc = "idle"
    /\ iokind = "read"
    /\ iosize = 0
    /\ have = 0
    /\ moved = 0
    /\ ioerrno = 0
    /\ iolast = "none"

\* the makedirs group at rest
IdleMd ==
    /\ mdpath = <<>>
    /\ mddirs = {<<>>}
    /\ mdfiles = {}
    /\ mddirs0 = {<<>>}
    /\ mdlevel = 0
    /\ mdphase = "idle"
    /\ mdval = 0
    /\ mdfailed = FALSE

\* the readlink group at rest
EmptyPath == [empty |-> TRUE, len |-> 0]

IdleRl ==
    /\ rlpc = "idle"
    /\ rlfile = [kind |-> "missing", len |-> 0, rel |-> FALSE]
    /\ rlok = TRUE
    /\ rlsz = 0
    /\ rlstsize = 0
    /\ rltarget = EmptyPath
    /\ rlerrno = 0
    /\ rlfailed = FALSE
    /\ rlres = "none"

\* the copy group at rest
IdleCp ==
    /\ cppc = "idle"
    /\ cpsize = 0
    /\ cplen = 0
    /\ cpcopied = 0
    /\ cplog = <<>>
    /\ cperrno = 0
    /\ cpclone = "none"
    /\ cpret = FALSE
    /\ cpeof = FALSE
    /\ cptick = FALSE

\* the mount_core group at rest
IdleMc ==
    /\ mcpc = 0
    /\ mcenv = [mounted |-> FALSE, dirs |-> {}]
    /\ mccv = EmptyCv
    /\ mclog = <<>>
    /\ mcres = [state |-> 0, where |-> NullLabel]

\* the nsproc_create mount chain group at rest
IdlePv ==
    /\ pvpc = "idle"
    /\ pvconf = [mounts |-> FALSE, gui_mounts |-> FALSE, keep_root |-> TRUE, run_media |-> FALSE]
    /\ pvcv = EmptyCv
    /\ pvin = EmptyCv
    /\ pvlog = <<>>
    /\ pvret = NoRet
    /\ pvfut = [given |-> FALSE, posts |-> <<>>, ready |-> 0, driver |-> "none"]

\* the mount_spec::execute group at rest
IdleMs ==
    /\ mspc = "idle"
    /\ msspec = [type |-> "", mkdir |-> "never"]
    /\ mspoint = "dir"
    /\ mslog = <<>>
    /\ msret = NoRet

\* the str_split group at rest
IdleSs ==
    /\ sspc = "idle"
    /\ ssstr = <<>>
    /\ sstart = 0
    /\ snext = 0
    /\ sparts = <<>>
    /\ spushed = 0

\* the mount_gui X11 group at rest
Unset == <<"unset">>

X11Dir == <<"tmp/.X11-unix">>

IdleXd ==
    /\ xpc = "idle"
    /\ xenv = [mode |-> Unset, display |-> Unset]
    /\ xdisplay = <<>>
    /\ xcur = <<>>
    /\ xfrag = X11Dir
    /\ xwarned = FALSE

\* the do_clone ownership group at rest
IdleDc ==
    /\ dcpc = "idle"
    /\ dccall = [fn |-> "vclone", flags |-> {}]
    /\ dcbox = "none"
    /\ dcstack = "none"
    /\ dcref = [pid |-> 0, cleanup |-> FALSE]
    /\ dckid = "none"

InitChildRef == IdleClone /\ IdleCref /\ IdleFd /\ IdleSem /\ IdleCv /\ IdleSn /\ IdleReap /\ IdleOv /\ IdleUs /\ IdlePo /\ IdleIo /\ IdleMd /\ IdleRl /\ IdleCp /\ IdleMc /\ IdlePv /\ IdleMs /\ IdleSs /\ IdleXd /\ IdleDc

SpecChildRef == InitChildRef /\ [][NextChildRef]_vars

\* ------------------------------------------------------------------------
\* fd group: class ko::fd::fd (kofd.hpp)
\* ------------------------------------------------------------------------
FdOp(o, src, dst) == lastFdOp' = [op |-> o, src |-> src, dst |-> dst]

\* the descriptor open(2) / dup(2) allocate: the lowest one that is free
LowestFree == CHOOSE n \in Descriptors \ openFds :
                  \A m \in Descriptors \ openFds : n <= m

\* ::close(n) as called by the wrappers, result ignored: the descriptor is
\* released if it was open; a call on a descriptor that is not open is
\* recorded (EBADF)
SysClose(n) ==
    /\ openFds' = openFds \ {n}
    /\ badClose' = (badClose \/ n \notin openFds)

\* `if (_fd >= 0) ::close(_fd);`
CloseIfHeld(v) ==
    IF v >= 0 THEN SysClose(v) ELSE UNCHANGED <<openFds, badClose>>

\* fd(): the empty object
fd_default(s) ==
    /\ UNCHANGED notFd
    /\ ~fdobj[s].live
    /\ fdobj' = [fdobj EXCEPT ![s] = [live |-> TRUE, fd |-> -1]]
    /\ FdOp("default", 0, s)
    /\ UNCHANGED <<openFds, rawOut, badClose>>

\* fd(int) on the result of an open: a fresh descriptor, or -1
fd_from_open(s) ==
    /\ UNCHANGED notFd
    /\ ~fdobj[s].live
    /\ \/ /\ Descriptors \ openFds # {}
          /\ fdobj' = [fdobj EXCEPT ![s] = [live |-> TRUE, fd |-> LowestFree]]
          /\ openFds' = openFds \cup {LowestFree}
       \/ /\ fdobj' = [fdobj EXCEPT ![s] = [live |-> TRUE, fd |-> -1]]
          /\ UNCHANGED openFds
    /\ FdOp("from_int", 0, s)
    /\ UNCHANGED <<rawOut, badClose>>

\* fd(int) on a descriptor the caller got from move()
fd_from_raw(s) ==
    /\ UNCHANGED notFd
    /\ ~fdobj[s].live
    /\ \E n \in rawOut :
          /\ fdobj' = [fdobj EXCEPT ![s] = [live |-> TRUE, fd |-> n]]
          /\ rawOut' = rawOut \ {n}
    /\ FdOp("from_int", 0, s)
    /\ UNCHANGED <<openFds, badClose>>

\* fd(fd &&o): _fd(o.move())
fd_move_ctor(d, s) ==
    /\ UNCHANGED notFd
    /\ ~fdobj[d].live
    /\ fdobj[s].live
    /\ fdobj' = [fdobj EXCEPT ![d] = [live |-> TRUE, fd |-> fdobj[s].fd],
                              ![s].fd = -1]
    /\ FdOp("move_ctor", s, d)
    /\ UNCHANGED <<openFds, rawOut, badClose>>

\* fd &operator=(int fd) with a fresh descriptor or -1
fd_assign_int(s) ==
    /\ UNCHANGED notFd
    /\ fdobj[s].live
    /\ \/ /\ fdobj[s].fd < 0
          /\ Descriptors \ openFds # {}
          /\ fdobj' = [fdobj EXCEPT ![s].fd = LowestFree]
          /\ openFds' = openFds \cup {LowestFree}
          /\ UNCHANGED badClose
       \/ \* the new descriptor was opened while the old one was still held
          /\ fdobj[s].fd >= 0
          /\ Descriptors \ openFds # {}
          /\ fdobj' = [fdobj EXCEPT ![s].fd = LowestFree]
          /\ openFds' = (openFds \cup {LowestFree}) \ {fdobj[s].fd}
          /\ badClose' = (badClose \/ fdobj[s].fd \notin openFds \cup {LowestFree})
       \/ /\ CloseIfHeld(fdobj[s].fd)
          /\ fdobj' = [fdobj EXCEPT ![s].fd = -1]
    /\ FdOp("assign_int", 0, s)
    /\ UNCHANGED rawOut

\* fd &operator=(fd &&o): close the held descriptor, then _fd = o.move();
\* o may be *this
fd_move_assign(d, s) ==
    /\ UNCHANGED notFd
    /\ fdobj[d].live
    /\ fdobj[s].live
    /\ CloseIfHeld(fdobj[d].fd)
    /\ fdobj' = [[fdobj EXCEPT ![s].fd = -1] EXCEPT ![d].fd = fdobj[s].fd]
    /\ FdOp("move_assign", s, d)
    /\ UNCHANGED rawOut

\* ~fd()
fd_destroy(s) ==
    /\ UNCHANGED notFd
    /\ fdobj[s].live
    /\ CloseIfHeld(fdobj[s].fd)
    /\ fdobj' = [fdobj EXCEPT ![s] = NoFd]
    /\ FdOp("destroy", 0, s)
    /\ UNCHANGED rawOut

\* int move(): disown
fd_move(s) ==
    /\ UNCHANGED notFd
    /\ fdobj[s].live
    /\ rawOut' = IF fdobj[s].fd >= 0 THEN rawOut \cup {fdobj[s].fd} ELSE rawOut
    /\ fdobj' = [fdobj EXCEPT ![s].fd = -1]
    /\ FdOp("move", s, 0)
    /\ UNCHANGED <<openFds, badClose>>

\* bool close()
fd_close(s) ==
    /\ UNCHANGED notFd
    /\ fdobj[s].live
    /\ \/ \* nothing held: return false
          /\ fdobj[s].fd < 0
          /\ UNCHANGED <<fdobj, openFds, badClose>>
       \/ \* ::close succeeded, or failed with EBADF: forget the descriptor
          /\ fdobj[s].fd >= 0
          /\ SysClose(fdobj[s].fd)
          /\ fdobj' = [fdobj EXCEPT ![s].fd = -1]
       \/ \* ::close failed with EINTR or EIO: Linux has released the
          \* descriptor all the same; return false and keep _fd
          /\ fdobj[s].fd \in openFds
          /\ openFds' = openFds \ {fdobj[s].fd}
          /\ UNCHANGED <<fdobj, badClose>>
    /\ FdOp("close", 0, s)
    /\ UNCHANGED rawOut

\* fd dup(): a new object from ::dup(_fd)
fd_dup(d, s) ==
    /\ UNCHANGED notFd
    /\ ~fdobj[d].live
    /\ fdobj[s].live
    /\ IF fdobj[s].fd \in openFds /\ Descriptors \ openFds # {}
         THEN /\ fdobj' = [fdobj EXCEPT ![d] = [live |-> TRUE, fd |-> LowestFree]]
              /\ openFds' = openFds \cup {LowestFree}
         ELSE /\ fdobj' = [fdobj EXCEPT ![d] = [live |-> TRUE, fd |-> -1]]
              /\ UNCHANGED openFds
    /\ FdOp("dup", s, d)
    /\ UNCHANGED <<rawOut, badClose>>

NextFd ==
    \/ \E s \in FdObjs : fd_default(s)
    \/ \E s \in FdObjs : fd_from_open(s)
    \/ \E s \in FdObjs : fd_from_raw(s)
    \/ \E d, s \in FdObjs : fd_move_ctor(d, s)
    \/ \E s \in FdObjs : fd_assign_int(s)
    \/ \E d, s \in FdObjs : fd_move_assign(d, s)
    \/ \E s \in FdObjs : fd_destroy(s)
    \/ \E s \in FdObjs : fd_move(s)
    \/ \E s \in FdObjs : fd_close(s)
    \/ \E d, s \in FdObjs : fd_dup(d, s)

InitFd == IdleClone /\ IdleCref /\ IdleFd /\ IdleSem /\ IdleCv /\ IdleSn /\ IdleReap /\ IdleOv /\ IdleUs /\ IdlePo /\ IdleIo /\ IdleMd /\ IdleRl /\ IdleCp /\ IdleMc /\ IdlePv /\ IdleMs /\ IdleSs /\ IdleXd /\ IdleDc

SpecFd == InitFd /\ [][NextFd]_vars

\* ------------------------------------------------------------------------
\* semapair group: sync::detail::semaphore_pair and sync::semapair (koproc.hpp)
\* ------------------------------------------------------------------------
\* a handle: sems = the pair (ptr 1) or nullptr (ptr 0), and its offset
Handle(p, o) == [state |-> "live", ptr |-> p, offset |-> o, v |-> 0]

\* semaphore_pair::retain: refs++
retain == pair' = [pair EXCEPT !.refs = @ + 1]

\* dereferencing the null semaphore_pair pointer ends the process
NullDeref ==
    /\ crashed' = TRUE
    /\ UNCHANGED <<hnd, pair, psem, posts, waits, releases>>

\* make_semapair(shared): create the pair (refs 0) and the two handles with
\* offsets 0 and 1, each retaining it; a failed mmap of a shared pair yields
\* nullptr, which the first handle dereferences
make_semapair(shared) ==
    /\ UNCHANGED notSem
    /\ ~crashed
    /\ pair.state = "none"
    /\ \/ /\ pair' = [state |-> "alloc", shared |-> shared, refs |-> 0 + 1 + 1]
          /\ hnd' = [hnd EXCEPT ![1] = Handle(1, OffsetParent),
                                ![2] = Handle(1, OffsetChild)]
          /\ UNCHANGED <<psem, posts, waits, releases, crashed>>
       \/ /\ shared
          /\ NullDeref

\* semapair(const semapair &o): sems(o.sems->retain()), offset(o.offset)
semapair_copy(d, s) ==
    /\ UNCHANGED notSem
    /\ ~crashed
    /\ hnd[d].state = "none"
    /\ hnd[s].state = "live"
    /\ IF hnd[s].ptr = 0
         THEN NullDeref
         ELSE /\ retain
              /\ hnd' = [hnd EXCEPT ![d] = Handle(hnd[s].ptr, hnd[s].offset)]
              /\ UNCHANGED <<psem, posts, waits, releases, crashed>>

\* the move constructor without `o.sems = nullptr`
semapair_move_keep(d, s) ==
    /\ UNCHANGED notSem
    /\ ~crashed
    /\ hnd[d].state = "none"
    /\ hnd[s].state = "live"
    /\ hnd' = [hnd EXCEPT ![d] = Handle(hnd[s].ptr, hnd[s].offset)]
    /\ UNCHANGED <<pair, psem, posts, waits, releases, crashed>>

\* semapair(semapair &&o): take sems and offset, o.sems = nullptr
semapair_move(d, s) ==
    /\ UNCHANGED notSem
    /\ ~crashed
    /\ hnd[d].state = "none"
    /\ hnd[s].state = "live"
    /\ hnd' = [hnd EXCEPT ![d] = Handle(hnd[s].ptr, hnd[s].offset),
                          ![s].ptr = 0]
    /\ UNCHANGED <<pair, psem, posts, waits, releases, crashed>>

\* ~semapair(): `if (sems)`, then release()'s fetch_sub(1), which remembers
\* the value v before the decrement; a destructor that read v # 1 touches
\* the pair no more, one that read v = 1 goes on to release_free
semapair_destroy(s) ==
    /\ UNCHANGED notSem
    /\ ~crashed
    /\ hnd[s].state = "live"
    /\ IF hnd[s].ptr = 0
         THEN /\ hnd' = [hnd EXCEPT ![s] = NoHandle]
              /\ UNCHANGED pair
         ELSE /\ hnd' = [hnd EXCEPT ![s] =
                            IF pair.refs = 1
                              THEN [NoHandle EXCEPT !.state = "dying",
                                                    !.ptr = hnd[s].ptr,
                                                    !.v = pair.refs]
                              ELSE NoHandle]
              /\ pair' = [pair EXCEPT !.refs = @ - 1]
    /\ UNCHANGED <<psem, posts, waits, releases, crashed>>

\* release(), second half: `if (v == 1)` destroy the semaphores and unmap a
\* shared pair, delete a private one
release_free(s) ==
    /\ UNCHANGED notSem
    /\ ~crashed
    /\ hnd[s].state = "dying"
    /\ hnd' = [hnd EXCEPT ![s] = NoHandle]
    /\ IF hnd[s].v = 1
         THEN /\ pair' = [pair EXCEPT !.state = IF pair.shared THEN "unmapped"
                                                               ELSE "deleted"]
              /\ releases' = releases + 1
         ELSE UNCHANGED <<pair, releases>>
    /\ UNCHANGED <<psem, posts, waits, crashed>>

\* semapair::post: sem_post(sems->sem(offset+1))
semapair_post(s) ==
    /\ UNCHANGED notSem
    /\ ~crashed
    /\ hnd[s].state = "live"
    /\ posts[hnd[s].offset] < MaxPosts
    /\ IF hnd[s].ptr = 0
         THEN NullDeref
         ELSE /\ psem' = [psem EXCEPT ![PostIndex(hnd[s].offset)] = @ + 1]
              /\ posts' = [posts EXCEPT ![hnd[s].offset] = @ + 1]
              /\ UNCHANGED <<hnd, pair, waits, releases, crashed>>

\* semapair::wait: sem_wait(sems->sem(offset)) returns once the semaphore
\* is positive, taking one unit
semapair_wait(s) ==
    /\ UNCHANGED notSem
    /\ ~crashed
    /\ hnd[s].state = "live"
    /\ IF hnd[s].ptr = 0
         THEN NullDeref
         ELSE /\ psem[WaitIndex(hnd[s].offset)] > 0
              /\ psem' = [psem EXCEPT ![WaitIndex(hnd[s].offset)] = @ - 1]
              /\ waits' = [waits EXCEPT ![hnd[s].offset] = @ + 1]
              /\ UNCHANGED <<hnd, pair, posts, releases, crashed>>

NextSem ==
    \/ \E shared \in BOOLEAN : make_semapair(shared)
    \/ \E d, s \in Handles : semapair_copy(d, s)
    \/ \E d, s \in Handles : semapair_move(d, s)
    \/ \E s \in Handles : semapair_destroy(s)
    \/ \E s \in Handles : release_free(s)
    \/ \E s \in Handles : semapair_post(s)
    \/ \E s \in Handles : semapair_wait(s)

InitSem == IdleClone /\ IdleCref /\ IdleFd /\ IdleSem /\ IdleCv /\ IdleSn /\ IdleReap /\ IdleOv /\ IdleUs /\ IdlePo /\ IdleIo /\ IdleMd /\ IdleRl /\ IdleCp /\ IdleMc /\ IdlePv /\ IdleMs /\ IdleSs /\ IdleXd /\ IdleDc

SpecSem == InitSem /\ [][NextSem]_vars

\* ------------------------------------------------------------------------
\* cvshort group: ko::util::cvshort (koutil.hpp)
\* ------------------------------------------------------------------------
\* labels of named steps (protect_path) and the literal label a cvresult
\* callable returns on its own failure (steamns.cpp:211)
StepNames == {"bind_protect", "bind_protect_ro"}

OwnLabel == "create temporary directory"

\* codes an int callable (bind, mount, chdir, a lambda) returns
StepCodes == {0, -1, 1}

\* then(name, fn, args...) without the `_state == 0` test
then_named_always(c, name, r) ==
    [state |-> r, where |-> IF r # 0 THEN name ELSE c.where, called |-> TRUE]

\* then(const char *name, F fn, Args...): fn returns the int r
then_named(c, name, r) ==
    IF c.state = 0
      THEN [state |-> r, where |-> IF r # 0 THEN name ELSE c.where,
            called |-> TRUE]
      ELSE [c EXCEPT !.called = FALSE]

\* then(F fn, Args...): fn returns the cvresult rv; std::tie assigns both
then_result(c, rv) ==
    IF c.state = 0
      THEN [state |-> rv.state, where |-> rv.where, called |-> TRUE]
      ELSE [c EXCEPT !.called = FALSE]

\* ifthen(const char *name, bool cond, F fn, Args...)
ifthen_named(c, name, cond, r) ==
    IF c.state = 0 /\ cond
      THEN [state |-> r, where |-> IF r # 0 THEN name ELSE c.where,
            called |-> TRUE]
      ELSE [c EXCEPT !.called = FALSE]

\* ifthen(bool cond, F fn, Args...)
ifthen_result(c, cond, rv) ==
    IF c.state = 0 /\ cond
      THEN [state |-> rv.state, where |-> rv.where, called |-> TRUE]
      ELSE [c EXCEPT !.called = FALSE]

\* operator cvresult(): {_state, _where}
AsCvresult(c) == [state |-> c.state, where |-> c.where]

\* a cvresult callable that is itself a chain of named steps (protect_path,
\* pivot_root, mount_core): q is the sequence of <<name, code>> of its steps
RECURSIVE RunChain(_, _)
RunChain(q, c) ==
    IF q = <<>> THEN AsCvresult(c)
    ELSE RunChain(Tail(q), then_named(c, Head(q)[1], Head(q)[2]))

\* the cvresult values the callables of unnamed steps return: the result of
\* an inner chain of one or two named steps, or the callable's own failure
InnerChains ==
    {<<x>> : x \in StepNames \X {0, -1}} \cup
    {<<x, y>> : x \in {"bind_protect"} \X {0, -1},
                y \in {"bind_protect_ro"} \X {0, -1}}

CallableResults ==
    {RunChain(q, EmptyCv) : q \in InnerChains} \cup
    {[state |-> 1, where |-> OwnLabel]}

\* one more call on the chain; the log keeps what the callable yields
CvCall(next, code, label) ==
    /\ Len(cvLog) < MaxChain
    /\ cv' = next
    /\ cvLog' = Append(cvLog, [called |-> next.called, code |-> code,
                               label |-> label])

cv_then_named ==
    /\ UNCHANGED notCv
    /\ \E name \in StepNames, r \in StepCodes :
          CvCall(then_named(cv, name, r), r, name)

cv_then_result ==
    /\ UNCHANGED notCv
    /\ \E rv \in CallableResults :
          CvCall(then_result(cv, rv), rv.state, rv.where)

cv_ifthen_named ==
    /\ UNCHANGED notCv
    /\ \E name \in StepNames, cond \in BOOLEAN, r \in StepCodes :
          CvCall(ifthen_named(cv, name, cond, r), r, name)

cv_ifthen_result ==
    /\ UNCHANGED notCv
    /\ \E cond \in BOOLEAN, rv \in CallableResults :
          CvCall(ifthen_result(cv, cond, rv), rv.state, rv.where)

NextCv ==
    \/ cv_then_named
    \/ cv_then_result
    \/ cv_ifthen_named
    \/ cv_ifthen_result

InitCv == IdleClone /\ IdleCref /\ IdleFd /\ IdleSem /\ IdleCv /\ IdleSn /\ IdleReap /\ IdleOv /\ IdleUs /\ IdlePo /\ IdleIo /\ IdleMd /\ IdleRl /\ IdleCp /\ IdleMc /\ IdlePv /\ IdleMs /\ IdleSs /\ IdleXd /\ IdleDc

SpecCv == InitCv /\ [][NextCv]_vars

\* ---------------------------------------------------------------------
\* steamns main: the driver around the namespace child
\* ---------------------------------------------------------------------
EEXIST == 17

DieFuture == 31

DieVfork == 32

DieFork == 33

DieReport == 34

Modes == {"plain", "create", "join"}

\* parse_cmdline lets -D through only together with -c or -j
MainConfigs ==
    {c \in [mode : Modes, dummy : BOOLEAN, path : {"link"}] :
        c.mode = "plain" => ~c.dummy}

\* proc._pid after a failed clone, and the pid of a child that was made
ProcFailed == {-1, 0 - ENOMEM}

ProcPid == 1

InitSnGroup ==
    /\ mpc = "check"
    /\ mconf \in MainConfigs
    /\ link \in IF mconf.mode = "plain" THEN {"absent"}
                ELSE {"absent", "live", "stale"}
    /\ nsFd = "none"
    /\ mfut = "none"
    /\ pfut = FALSE
    /\ pjoin = [state |-> "none", posts |-> <<>>]
    /\ mposted = FALSE
    /\ mchild = "none"
    /\ mproc = -1
    /\ mret = NoRet
    /\ mdid = {}
    /\ staleSeen = FALSE

InitSn == InitSnGroup /\ IdleClone /\ IdleCref /\ IdleFd /\ IdleSem /\ IdleCv /\ IdleReap /\ IdleOv /\ IdleUs /\ IdlePo /\ IdleIo /\ IdleMd /\ IdleRl /\ IdleCp /\ IdleMc /\ IdlePv /\ IdleMs /\ IdleSs /\ IdleXd /\ IdleDc

\* return from main, or die()/std::terminate when dead
MainEnds(code, dead) ==
    /\ mpc' = IF dead THEN "dead" ELSE "done"
    /\ mret' = code

\* the ns_path checks at the top of main
steamns_check ==
    /\ mpc = "check"
    /\ IF mconf.mode = "plain"
       THEN /\ mpc' = "auto"
            /\ UNCHANGED <<link, mret, mdid, staleSeen>>
       ELSE IF link # "absent"
       THEN IF mconf.mode = "create"
            THEN /\ MainEnds(0 - EEXIST, FALSE)
                 /\ UNCHANGED <<link, mdid, staleSeen>>
            ELSE IF link = "stale"
            THEN \/ /\ link' = "absent"
                    /\ mdid' = mdid \cup {"remove_stale"}
                    /\ staleSeen' = TRUE
                    /\ mpc' = "auto"
                    /\ UNCHANGED mret
                 \/ \* fs::remove throws
                    /\ staleSeen' = TRUE
                    /\ MainEnds(NoRet, TRUE)
                    /\ UNCHANGED <<link, mdid>>
            ELSE /\ mpc' = "auto"
                 /\ UNCHANGED <<link, mret, mdid, staleSeen>>
       ELSE IF mconf.mode = "join" /\ ~mconf.dummy
       THEN /\ MainEnds(0 - ENOENT, FALSE)
            /\ UNCHANGED <<link, mdid, staleSeen>>
       ELSE /\ mpc' = "auto"
            /\ UNCHANGED <<link, mret, mdid, staleSeen>>
    /\ UNCHANGED <<mconf, nsFd, mfut, pfut, pjoin, mposted, mchild, mproc>>
    /\ UNCHANGED notSn

AutoSpawn == mconf.mode = "join" /\ mconf.dummy /\ link # "live"

\* the parent_future lambda when it has nothing to spawn
steamns_auto_skip ==
    /\ mpc = "auto"
    /\ ~AutoSpawn
    /\ mpc' = "open"
    /\ UNCHANGED <<mconf, link, nsFd, mfut, pfut, pjoin, mposted, mchild, mproc,
                   mret, mdid, staleSeen>>
    /\ UNCHANGED notSn

\* the parent_future lambda, an allocation or vfork failing
steamns_auto_die ==
    /\ mpc = "auto"
    /\ AutoSpawn
    /\ \E code \in {DieFuture, DieVfork} : MainEnds(code, TRUE)
    /\ UNCHANGED <<mconf, link, nsFd, mfut, pfut, pjoin, mposted, mchild, mproc,
                   mdid, staleSeen>>
    /\ UNCHANGED notSn

\* the parent_future lambda, seen from the process that called main:
\* it waits for the vfork child and for the daemon's report
steamns_auto_parent ==
    /\ mpc = "auto"
    /\ AutoSpawn
    /\ mdid' = mdid \cup {"fork"}
    /\ \/ /\ \E code \in {DieFork, DieReport} : MainEnds(code, TRUE)
          /\ UNCHANGED mconf
       \/ /\ mconf' = [mconf EXCEPT !.path = "proc"]
          /\ mpc' = "open"
          /\ UNCHANGED mret
    /\ UNCHANGED <<link, nsFd, mfut, pfut, pjoin, mposted, mchild, mproc, staleSeen>>
    /\ UNCHANGED notSn

\* parent_future->post(v), made by the daemon
parent_future_post(v) == [pjoin EXCEPT !.posts = Append(@, v)]

\* the parent_future lambda, seen from the daemon of the double fork
steamns_auto_daemon ==
    /\ mpc = "auto"
    /\ AutoSpawn
    /\ mdid' = mdid \cup {"fork"}
    /\ mconf' = [mconf EXCEPT !.mode = "create"]
    /\ pfut' = TRUE
    /\ pjoin' = [state |-> "waiting", posts |-> <<>>]
    /\ mpc' = "open"
    /\ UNCHANGED <<link, nsFd, mfut, mposted, mchild, mproc, mret, staleSeen>>
    /\ UNCHANGED notSn

\* what ns_path names exists as a directory
NsPathExists == mconf.path = "proc" \/ link = "live"

\* ns_path_fd = opendir(ns_path), or fd(-1) without ns_path
steamns_opendir ==
    /\ mpc = "open"
    /\ nsFd' \in IF mconf.mode = "plain" THEN {"none"}
                 ELSE IF NsPathExists THEN {"valid", "invalid"}
                 ELSE {"invalid"}
    /\ mpc' = "future"
    /\ UNCHANGED <<mconf, link, mfut, pfut, pjoin, mposted, mchild, mproc, mret,
                   mdid, staleSeen>>
    /\ UNCHANGED notSn

\* ns_future = ns_create ? create_private() : nullptr
steamns_future ==
    /\ mpc = "future"
    /\ mfut' \in IF mconf.mode = "create" THEN {"alloc", "null"} ELSE {"null"}
    /\ mpc' = "clone"
    /\ UNCHANGED <<mconf, link, nsFd, pfut, pjoin, mposted, mchild, mproc, mret,
                   mdid, staleSeen>>
    /\ UNCHANGED notSn

\* the join lambda: nsproc_join_parent, then vclone
steamns_join ==
    /\ mpc = "clone"
    /\ mconf.mode = "join"
    /\ \/ \* openat on ns_path_fd fails: setns(2) is never called
          /\ mproc' = -1
          /\ UNCHANGED <<mdid, mchild>>
       \/ /\ nsFd = "valid"
          /\ \/ /\ mproc' = -1
                /\ mdid' = mdid \cup {"setns"}
                /\ UNCHANGED mchild
             \/ /\ mproc' \in ProcFailed
                /\ mdid' = mdid \cup {"setns"}
                /\ UNCHANGED mchild
             \/ /\ mproc' = ProcPid
                /\ mdid' = mdid \cup {"setns", "clone"}
                /\ mchild' = "setup"
    /\ mpc' = "after"
    /\ UNCHANGED <<mconf, link, nsFd, mfut, pfut, pjoin, mposted, mret, staleSeen>>
    /\ UNCHANGED notSn

\* uvclone_single(uid, gid, nsproc_create, ..., nsconf, ns_future)
steamns_uvclone ==
    /\ mpc = "clone"
    /\ mconf.mode # "join"
    /\ \/ /\ mproc' \in ProcFailed
          /\ UNCHANGED <<mdid, mchild>>
       \/ /\ mproc' = ProcPid
          /\ mdid' = mdid \cup {"clone"}
          /\ mchild' = "setup"
    /\ mpc' = "after"
    /\ UNCHANGED <<mconf, link, nsFd, mfut, pfut, pjoin, mposted, mret, staleSeen>>
    /\ UNCHANGED notSn

\* if (proc) ... else { post(-1); return proc.pid(); }
steamns_after ==
    /\ mpc = "after"
    /\ IF mproc > 0
       THEN /\ mpc' = IF mconf.mode = "create" THEN "nsfut" ELSE "wait"
            /\ UNCHANGED mret
       ELSE MainEnds(mproc, FALSE)
    /\ pjoin' = IF mproc <= 0 /\ pfut THEN parent_future_post(-1) ELSE pjoin
    /\ UNCHANGED <<mconf, link, nsFd, mfut, pfut, mposted, mchild, mproc,
                   mdid, staleSeen>>
    /\ UNCHANGED notSn

\* if (ns_future) { wait(); destroy(); }  if (parent_future) post(_pid)
steamns_ns_future ==
    /\ mpc = "nsfut"
    /\ IF mfut = "alloc"
       THEN /\ mposted
            /\ mfut' = "destroyed"
       ELSE UNCHANGED mfut
    /\ mdid' = IF pfut THEN mdid \cup {"post_parent"} ELSE mdid
    /\ pjoin' = IF pfut THEN parent_future_post(mproc) ELSE pjoin
    /\ mpc' = "link"
    /\ UNCHANGED <<mconf, link, nsFd, pfut, mposted, mchild, mproc, mret,
                   staleSeen>>
    /\ UNCHANGED notSn

\* fs::create_directory_symlink("/proc/<pid>/ns", ns_path)
steamns_link ==
    /\ mpc = "link"
    /\ \/ /\ link = "absent"
          /\ link' = IF mchild = "exited" THEN "stale" ELSE "live"
          /\ mdid' = mdid \cup {"create_link"}
          /\ mpc' = "wait"
          /\ UNCHANGED mret
       \/ \* it throws
          /\ MainEnds(NoRet, TRUE)
          /\ UNCHANGED <<link, mdid>>
    /\ UNCHANGED <<mconf, nsFd, mfut, pfut, pjoin, mposted, mchild, mproc, staleSeen>>
    /\ UNCHANGED notSn

\* res = proc.wait(); return res unless the symlink is to be removed
steamns_wait ==
    /\ mpc = "wait"
    /\ mchild = "exited"
    /\ IF mconf.mode = "create"
       THEN /\ mpc' = "remove"
            /\ UNCHANGED mret
       ELSE \E st \in {0, 1} : MainEnds(st, FALSE)
    /\ UNCHANGED <<mconf, link, nsFd, mfut, pfut, pjoin, mposted, mchild, mproc,
                   mdid, staleSeen>>
    /\ UNCHANGED notSn

\* fs::remove(ns_path); return res
steamns_remove ==
    /\ mpc = "remove"
    /\ \/ /\ link' = "absent"
          /\ mdid' = mdid \cup {"remove_link"}
          /\ \E st \in {0, 1} : MainEnds(st, FALSE)
       \/ \* it throws
          /\ MainEnds(NoRet, TRUE)
          /\ UNCHANGED <<link, mdid>>
    /\ UNCHANGED <<mconf, nsFd, mfut, pfut, pjoin, mposted, mchild, mproc, staleSeen>>
    /\ UNCHANGED notSn

\* the symlink the driver made names /proc/<pid>/ns of its child
LinkAfterExit ==
    IF link = "live" /\ "create_link" \in mdid THEN "stale" ELSE link

\* nsproc_create finishes setup (well or badly) and posts if it was given
\* a report
ns_child_setup ==
    /\ mchild = "setup"
    /\ mchild' = "ready"
    /\ mposted' = (mposted \/ mfut = "alloc")
    /\ UNCHANGED <<mpc, mconf, link, nsFd, mfut, pfut, pjoin, mproc, mret, mdid,
                   staleSeen>>
    /\ UNCHANGED notSn

\* the child is killed before it reports
ns_child_abort ==
    /\ mchild = "setup"
    /\ mchild' = "exited"
    /\ link' = LinkAfterExit
    /\ UNCHANGED <<mpc, mconf, nsFd, mfut, pfut, pjoin, mposted, mproc, mret, mdid,
                   staleSeen>>
    /\ UNCHANGED notSn

\* the child exits after setup
ns_child_exit ==
    /\ mchild = "ready"
    /\ mchild' = "exited"
    /\ link' = LinkAfterExit
    /\ UNCHANGED <<mpc, mconf, nsFd, mfut, pfut, pjoin, mposted, mproc, mret, mdid,
                   staleSeen>>
    /\ UNCHANGED notSn

\* the process a foreign symlink names exits: the link dangles
ns_owner_exits ==
    /\ link = "live"
    /\ "create_link" \notin mdid
    /\ mpc \notin {"idle", "done", "dead"}
    /\ link' = "stale"
    /\ UNCHANGED <<mpc, mconf, nsFd, mfut, pfut, pjoin, mposted, mchild, mproc,
                   mret, mdid, staleSeen>>
    /\ UNCHANGED notSn

\* the process that called main, in the parent_future lambda: pid =
\* f->wait(); if (pid < 0) die(34, ...); conf.ns_path = "/proc/<pid>/ns"
joiner_wait ==
    /\ pjoin.state = "waiting"
    /\ Len(pjoin.posts) > 0
    /\ pjoin' = [pjoin EXCEPT !.state = IF pjoin.posts[1] < 0 THEN "dead"
                                        ELSE "released"]
    /\ UNCHANGED <<mpc, mconf, link, nsFd, mfut, pfut, mposted, mchild, mproc,
                   mret, mdid, staleSeen>>
    /\ UNCHANGED notSn

\* the same process: ns_path_fd = opendir("/proc/<pid>/ns")
joiner_opendir ==
    /\ pjoin.state = "released"
    /\ pjoin' = [pjoin EXCEPT !.state = "open"]
    /\ UNCHANGED <<mpc, mconf, link, nsFd, mfut, pfut, mposted, mchild, mproc,
                   mret, mdid, staleSeen>>
    /\ UNCHANGED notSn

NextSn ==
    \/ steamns_check
    \/ steamns_auto_skip
    \/ steamns_auto_die
    \/ steamns_auto_parent
    \/ steamns_auto_daemon
    \/ steamns_opendir
    \/ steamns_future
    \/ steamns_join
    \/ steamns_uvclone
    \/ steamns_after
    \/ steamns_ns_future
    \/ steamns_link
    \/ steamns_wait
    \/ steamns_remove
    \/ ns_child_setup
    \/ ns_child_abort
    \/ ns_child_exit
    \/ ns_owner_exits
    \/ joiner_wait
    \/ joiner_opendir

SpecSn == InitSn /\ [][NextSn]_vars

\* the daemon, the namespace child and the joiner keep running
SpecSnFair == SpecSn /\ WF_vars(NextSn)

\* ---------------------------------------------------------------------
\* pid1: the reaper of a pid namespace
\* ---------------------------------------------------------------------
MaxProcs == 2

\* -errno as xerror returns it
XerrorVals == {0 - EINVAL, 0 - ENOMEM}

InitReapGroup ==
    /\ rpc = "sigprocmask"
    /\ alive = 0
    /\ zombies = 0
    /\ spawned = 0
    /\ sigPending = FALSE
    /\ rret = 0
    /\ lastCount = 0
    /\ drained = FALSE
    /\ woke = "none"

InitReap == InitReapGroup /\ IdleClone /\ IdleCref /\ IdleFd /\ IdleSem /\ IdleCv /\ IdleSn /\ IdleOv /\ IdleUs /\ IdlePo /\ IdleIo /\ IdleMd /\ IdleRl /\ IdleCp /\ IdleMc /\ IdlePv /\ IdleMs /\ IdleSs /\ IdleXd /\ IdleDc

\* return xerror(desc)
pid1_xerror ==
    /\ rpc' = "returned"
    /\ rret' \in XerrorVals

\* sigprocmask(SIG_BLOCK, {SIGCHLD})
pid1_sigprocmask ==
    /\ rpc = "sigprocmask"
    /\ \/ /\ rpc' = "signalfd"
          /\ UNCHANGED rret
       \/ pid1_xerror
    /\ UNCHANGED <<alive, zombies, spawned, sigPending, lastCount, drained, woke>>
    /\ UNCHANGED notReap

\* sfd = signalfd(-1, &mask, 0)
pid1_signalfd ==
    /\ rpc = "signalfd"
    /\ \/ /\ rpc' = "select"
          /\ UNCHANGED rret
       \/ pid1_xerror
    /\ UNCHANGED <<alive, zombies, spawned, sigPending, lastCount, drained, woke>>
    /\ UNCHANGED notReap

\* select(sfd + 1, &fds, NULL, NULL, 60 s): readable, timed out, or failed
pid1_select ==
    /\ rpc = "select"
    /\ drained' = FALSE
    /\ \/ /\ sigPending
          /\ rpc' = "read"
          /\ woke' = "sigchld"
          /\ UNCHANGED rret
       \/ /\ ~sigPending
          /\ rpc' = "count"
          /\ woke' = "timeout"
          /\ UNCHANGED rret
       \/ /\ pid1_xerror
          /\ UNCHANGED woke
    /\ UNCHANGED <<alive, zombies, spawned, sigPending, lastCount>>
    /\ UNCHANGED notReap

\* read(sfd, &si, sizeof(si)) takes the pending SIGCHLD
pid1_read ==
    /\ rpc = "read"
    /\ \/ /\ sigPending' = FALSE
          /\ rpc' = "reap"
          /\ UNCHANGED rret
       \/ /\ pid1_xerror
          /\ UNCHANGED sigPending
    /\ UNCHANGED <<alive, zombies, spawned, lastCount, drained, woke>>
    /\ UNCHANGED notReap

\* one waitpid(-1, NULL, WNOHANG) of the reap loop: a zombie is reaped and
\* the loop goes on, or it reports 0 or ECHILD and the loop breaks
pid1_waitpid ==
    /\ rpc = "reap"
    /\ IF zombies > 0
       THEN /\ zombies' = zombies - 1
            /\ UNCHANGED <<rpc, drained>>
       ELSE /\ rpc' = "count"
            /\ drained' = TRUE
            /\ UNCHANGED zombies
    /\ UNCHANGED <<alive, spawned, sigPending, rret, lastCount, woke>>
    /\ UNCHANGED notReap

\* waitpid fails with something other than ECHILD: perror, next round
pid1_waitpid_error ==
    /\ rpc = "reap"
    /\ UNCHANGED <<rpc, alive, zombies, spawned, sigPending, rret, lastCount,
                   drained, woke>>
    /\ UNCHANGED notReap

\* the numeric entries of /proc: pid1, the running and the unreaped
ProcCount == 1 + alive + zombies

\* count the numeric entries of /proc; return 0 when count <= 1
pid1_count ==
    /\ rpc = "count"
    /\ lastCount' = ProcCount
    /\ IF ProcCount <= 1
       THEN /\ rpc' = "returned"
            /\ rret' = 0
       ELSE /\ rpc' = "select"
            /\ UNCHANGED rret
    /\ UNCHANGED <<alive, zombies, spawned, sigPending, drained, woke>>
    /\ UNCHANGED notReap

Pid1Runs == rpc \notin {"idle", "returned"}

\* a process enters the namespace (fork inside, or a join from outside)
ns_proc_enters ==
    /\ Pid1Runs
    /\ spawned < MaxProcs
    /\ spawned' = spawned + 1
    /\ alive' = alive + 1
    /\ UNCHANGED <<rpc, zombies, sigPending, rret, lastCount, drained, woke>>
    /\ UNCHANGED notReap

\* a process whose parent is pid1 exits: a zombie, and SIGCHLD for pid1,
\* which is discarded unless pid1 has blocked it already
ns_proc_exits ==
    /\ Pid1Runs
    /\ alive > 0
    /\ alive' = alive - 1
    /\ zombies' = zombies + 1
    /\ sigPending' = IF rpc = "sigprocmask" THEN sigPending ELSE TRUE
    /\ UNCHANGED <<rpc, spawned, rret, lastCount, drained, woke>>
    /\ UNCHANGED notReap

\* a process exits and its own parent (a joiner outside) reaps it
ns_proc_reaped ==
    /\ Pid1Runs
    /\ alive > 0
    /\ alive' = alive - 1
    /\ UNCHANGED <<rpc, zombies, spawned, sigPending, rret, lastCount,
                   drained, woke>>
    /\ UNCHANGED notReap

Pid1Step ==
    \/ pid1_sigprocmask
    \/ pid1_signalfd
    \/ pid1_select
    \/ pid1_read
    \/ pid1_waitpid
    \/ pid1_count

NextReap ==
    \/ pid1_sigprocmask
    \/ pid1_signalfd
    \/ pid1_select
    \/ pid1_read
    \/ pid1_waitpid
    \/ pid1_waitpid_error
    \/ pid1_count
    \/ ns_proc_enters
    \/ ns_proc_exits
    \/ ns_proc_reaped

SpecReap == InitReap /\ [][NextReap]_vars

\* pid1 keeps running: select returns at the latest after its timeout
SpecReapFair == SpecReap /\ WF_vars(Pid1Step)

\* ---------------------------------------------------------------------
\* overlayns main: command line, clone, cleanup
\* ---------------------------------------------------------------------
MaxArgs == 2

MaxSpecLen == 5

ExitParse == 33

ExitNoCmdline == 22

\* a spec string: characters other than ',' are all written "x"
SpecStrings == UNION {[1..n -> {"x", ","}] : n \in 0..MaxSpecLen}

\* position of the first ',' at or after start, 0 when there is none
Find(s, start) ==
    IF \E i \in start..Len(s) : s[i] = ","
    THEN CHOOSE i \in start..Len(s) :
            /\ s[i] = ","
            /\ \A j \in start..(i - 1) : s[j] # ","
    ELSE 0

RECURSIVE SplitFrom(_, _)
SplitFrom(s, start) ==
    LET next == Find(s, start)
    IN IF next = 0
       THEN <<SubSeq(s, start, Len(s))>>
       ELSE <<SubSeq(s, start, next - 1)>> \o SplitFrom(s, next + 1)

\* str_split(s, ','); the alphabet has no backslash, so nothing is escaped
str_split(s) == SplitFrom(s, 1)

IncompleteMsg == "Incomplete mount spec"

MkdirMsg == "Unknown mkdir= argument"

TmpMsg == "Could not create temporary directory for 'tmp' overlay option"

LowerMsg == "Missing lowerdir option"

UpperWorkMsg == "Must specify upperdir and workdir both or neither"

\* the length test of the parser, on the number of fields
FieldTest(s) == Len(str_split(s)) < 3

\* mount_spec::parse up to the construction of the spec: "incomplete" is
\* the early return, "undefined" is parts[1] or parts[2] read past the end
\* of the vector
ParseKind(s) ==
    IF Len(s) < 3 THEN "incomplete"
    ELSE IF Len(str_split(s)) < 3 THEN "undefined"
    ELSE "ok"

\* the option strings of an overlay spec, by what they set
OverlaySpecs ==
    [tmp : BOOLEAN, shadow : BOOLEAN, lowerdir : BOOLEAN, upperdir : BOOLEAN,
     workdir : BOOLEAN, copyfrom : BOOLEAN]

\* the checks at the end of parse_overlay_spec, with x.upperdir and
\* x.workdir as they are after the 'tmp' block
OverlayErrors(o, upper, work) ==
    (IF ~(o.lowerdir \/ o.shadow) THEN <<LowerMsg>> ELSE <<>>)
        \o (IF upper # work THEN <<UpperWorkMsg>> ELSE <<>>)

InitOvGroup ==
    /\ opc = "getopt"
    /\ nargs = 0
    /\ recipe = <<>>
    /\ cleanup = <<>>
    /\ tmpdirs = {}
    /\ oret = NoRet
    /\ perr = NoErr
    /\ shortSpec = FALSE
    /\ cloned = FALSE
    /\ ospec = NoSpec

InitOv == InitOvGroup /\ IdleClone /\ IdleCref /\ IdleFd /\ IdleSem /\ IdleCv /\ IdleSn /\ IdleReap /\ IdleUs /\ IdlePo /\ IdleIo /\ IdleMd /\ IdleRl /\ IdleCp /\ IdleMc /\ IdlePv /\ IdleMs /\ IdleSs /\ IdleXd /\ IdleDc

\* return code from main
OvReturn(code) ==
    /\ opc' = "exited"
    /\ oret' = code

\* the process dies: std::terminate or a fault
OvCrash ==
    /\ opc' = "crashed"
    /\ UNCHANGED oret

\* getopt returns 'h' or '?'
overlayns_usage ==
    /\ opc = "getopt"
    /\ nargs < MaxArgs
    /\ \E code \in {0, 1} : OvReturn(code)
    /\ UNCHANGED <<nargs, recipe, cleanup, tmpdirs, perr, shortSpec, cloned, ospec>>
    /\ UNCHANGED notOv

\* -m: mount_spec::parse, then return 33 or push the spec
overlayns_opt_m ==
    /\ opc = "getopt"
    /\ nargs < MaxArgs
    /\ nargs' = nargs + 1
    /\ \E s \in SpecStrings :
        /\ shortSpec' = (shortSpec \/ FieldTest(s))
        /\ \/ /\ ParseKind(s) = "incomplete"
              /\ perr' = IncompleteMsg
              /\ OvReturn(ExitParse)
              /\ UNCHANGED recipe
           \/ /\ ParseKind(s) = "ok"
              /\ \/ /\ perr' = NoErr
                    /\ recipe' = Append(recipe, "mount")
                    /\ UNCHANGED <<opc, oret>>
                 \/ \* apply_options rejects one of the fields after the third
                    /\ Len(str_split(s)) > 3
                    /\ perr' = MkdirMsg
                    /\ OvReturn(ExitParse)
                    /\ UNCHANGED recipe
           \/ /\ ParseKind(s) = "undefined"
              /\ \/ /\ OvCrash
                    /\ UNCHANGED <<perr, recipe>>
                 \/ /\ perr' = NoErr
                    /\ recipe' = Append(recipe, "mount")
                    /\ UNCHANGED <<opc, oret>>
                 \/ /\ perr' = MkdirMsg
                    /\ OvReturn(ExitParse)
                    /\ UNCHANGED recipe
    /\ UNCHANGED <<cleanup, tmpdirs, cloned, ospec>>
    /\ UNCHANGED notOv

\* -o: parse_overlay_spec, then return 33 on errors
\* x.upperdir.substr(upperdir_opt.size()): string_view::substr throws
\* std::out_of_range when the position lies behind the end, as it does
\* for an x.upperdir that was never set
SubstrThrows(upper) == ~upper

overlayns_opt_o ==
    /\ opc = "getopt"
    /\ nargs < MaxArgs
    /\ nargs' = nargs + 1
    /\ \E o \in OverlaySpecs :
      /\ ospec' = [n |-> nargs + 1, o |-> o]
      /\
        \/ \* mkdtemp fails
           /\ o.tmp
           /\ perr' = TmpMsg
           /\ OvReturn(ExitParse)
           /\ UNCHANGED <<recipe, cleanup, tmpdirs>>
        \/ \* fs::create_directory of upper or work throws
           /\ o.tmp
           /\ tmpdirs' = tmpdirs \cup {nargs + 1}
           /\ OvCrash
           /\ UNCHANGED <<recipe, cleanup, perr>>
        \/ LET upper == o.tmp \/ o.upperdir
               work == o.tmp \/ o.workdir
               errors == OverlayErrors(o, upper, work)
           IN /\ tmpdirs' = IF o.tmp THEN tmpdirs \cup {nargs + 1} ELSE tmpdirs
              /\ cleanup' = IF o.tmp THEN Append(cleanup, nargs + 1) ELSE cleanup
              /\ IF errors # <<>>
                 THEN /\ perr' = errors[1]
                      /\ OvReturn(ExitParse)
                      /\ UNCHANGED recipe
                 ELSE IF o.copyfrom /\ SubstrThrows(upper)
                 THEN /\ OvCrash
                      /\ UNCHANGED <<recipe, perr>>
                 ELSE /\ perr' = NoErr
                      /\ recipe' = recipe
                            \o (IF o.copyfrom THEN <<"copy">> ELSE <<>>)
                            \o <<"overlay">>
                      /\ UNCHANGED <<opc, oret>>
    /\ UNCHANGED <<shortSpec, cloned>>
    /\ UNCHANGED notOv

\* getopt returns -1: the rest is the child's command line
overlayns_cmdline ==
    /\ opc = "getopt"
    /\ \/ OvReturn(ExitNoCmdline)
       \/ /\ opc' = "clone"
          /\ UNCHANGED oret
    /\ UNCHANGED <<nargs, recipe, cleanup, tmpdirs, perr, shortSpec, cloned, ospec>>
    /\ UNCHANGED notOv

\* uvclone_single(...); if (ret) return ret
overlayns_uvclone ==
    /\ opc = "clone"
    /\ cloned' = TRUE
    /\ \/ \E e \in ErrnoVals : OvReturn(e)
       \/ /\ opc' = "wait"
          /\ UNCHANGED oret
    /\ UNCHANGED <<nargs, recipe, cleanup, tmpdirs, perr, shortSpec, ospec>>
    /\ UNCHANGED notOv

RECURSIVE Elems(_)
Elems(q) == IF q = <<>> THEN {} ELSE {Head(q)} \cup Elems(Tail(q))

\* ret = child.wait(); for_each(cfg.cleanup, fs::remove_all); return ret
overlayns_wait ==
    /\ opc = "wait"
    /\ tmpdirs' = tmpdirs \ Elems(cleanup)
    /\ \E st \in StepResults : OvReturn(st)
    /\ UNCHANGED <<nargs, recipe, cleanup, perr, shortSpec, cloned, ospec>>
    /\ UNCHANGED notOv

NextOv ==
    \/ overlayns_usage
    \/ overlayns_opt_m
    \/ overlayns_opt_o
    \/ overlayns_cmdline
    \/ overlayns_uvclone
    \/ overlayns_wait

SpecOv == InitOv /\ [][NextOv]_vars

\* ---------------------------------------------------------------------
\* unshare_single with the ids it writes (kons.hpp)
\* ---------------------------------------------------------------------
MaxId == 1

\* what geteuid reports in a user namespace without a mapping
OverflowId == 65534

Ids == 0..MaxId

CloneFlags == {"CLONE_NEWNS", "CLONE_NEWPID"}

InitUsGroup ==
    /\ upc = "geteuid"
    /\ ucfg \in [uid : Ids, gid : Ids, flags : SUBSET CloneFlags]
    /\ host \in [euid : Ids, egid : Ids]
    /\ cred = host
    /\ ulocal = NoIds
    /\ unshared = {}
    /\ setgroups = "allow"
    /\ uwrites = <<>>
    /\ ures = 0

InitUs == InitUsGroup /\ IdleClone /\ IdleCref /\ IdleFd /\ IdleSem /\ IdleCv /\ IdleSn /\ IdleReap /\ IdleOv /\ IdlePo /\ IdleIo /\ IdleMd /\ IdleRl /\ IdleCp /\ IdleMc /\ IdlePv /\ IdleMs /\ IdleSs /\ IdleXd /\ IdleDc

\* mutant of idmap::single: inside and outside id exchanged
single_swapped(id, host_id) ==
    <<[start |-> host_id, host_start |-> id, count |-> 1]>>

\* idmap::single(id, host_id)
single(id, host_id) == <<[start |-> id, host_start |-> host_id, count |-> 1]>>

\* the kernel takes a map from an unprivileged writer only when it has one
\* entry that maps the writer's own id in the parent namespace
MapAccepted(map, own) ==
    /\ Len(map) = 1
    /\ map[1].host_start = own
    /\ map[1].count = 1

Wrote(file, content, ok) == [file |-> file, content |-> content, ok |-> ok]

\* euid = geteuid(); egid = getegid()
unshare_single_geteuid ==
    /\ upc = "geteuid"
    /\ ulocal' = cred
    /\ upc' = "unshare"
    /\ UNCHANGED <<ucfg, cred, host, unshared, setgroups, uwrites, ures>>
    /\ UNCHANGED notUs

\* r = ::unshare(flags | CLONE_NEWUSER); if (r != 0) return r
unshare_single_call ==
    /\ upc = "unshare"
    /\ \/ /\ unshared' = ucfg.flags \cup {"CLONE_NEWUSER"}
          /\ cred' = [euid |-> OverflowId, egid |-> OverflowId]
          /\ upc' = "uid_map"
          /\ UNCHANGED ures
       \/ /\ ures' = -1
          /\ upc' = "returned"
          /\ UNCHANGED <<unshared, cred>>
    /\ UNCHANGED <<ucfg, host, ulocal, setgroups, uwrites>>
    /\ UNCHANGED notUs

\* the tail of one write: go on, or return -1
AfterWrite(ok, next) ==
    IF ok
    THEN /\ upc' = next
         /\ ures' = ures
    ELSE /\ upc' = "returned"
         /\ ures' = -1

\* idmap::set("/proc/self/uid_map", idmap::single(uid, euid))
unshare_single_uid_map ==
    /\ upc = "uid_map"
    /\ LET map == single(ucfg.uid, ulocal.euid)
       IN \E ok \in {FALSE, MapAccepted(map, host.euid)} :
            /\ uwrites' = Append(uwrites, Wrote("uid_map", map, ok))
            /\ cred' = IF ok THEN [cred EXCEPT !.euid = ucfg.uid] ELSE cred
            /\ AfterWrite(ok, "setgroups")
    /\ UNCHANGED <<ucfg, host, ulocal, unshared, setgroups>>
    /\ UNCHANGED notUs

\* idmap::disable_setgroups(getpid())
unshare_single_deny ==
    /\ upc = "setgroups"
    /\ \E ok \in BOOLEAN :
        /\ uwrites' = Append(uwrites, Wrote("setgroups", <<"deny">>, ok))
        /\ setgroups' = IF ok THEN "deny" ELSE setgroups
        /\ AfterWrite(ok, "gid_map")
    /\ UNCHANGED <<ucfg, cred, host, ulocal, unshared>>
    /\ UNCHANGED notUs

\* idmap::set("/proc/self/gid_map", idmap::single(gid, egid)); return 0
unshare_single_gid_map ==
    /\ upc = "gid_map"
    /\ LET map == single(ucfg.gid, ulocal.egid)
       IN \E ok \in {FALSE, MapAccepted(map, host.egid) /\ setgroups = "deny"} :
            /\ uwrites' = Append(uwrites, Wrote("gid_map", map, ok))
            /\ cred' = IF ok THEN [cred EXCEPT !.egid = ucfg.gid] ELSE cred
            /\ upc' = "returned"
            /\ ures' = IF ok THEN 0 ELSE -1
    /\ UNCHANGED <<ucfg, host, ulocal, unshared, setgroups>>
    /\ UNCHANGED notUs

NextUs ==
    \/ unshare_single_geteuid
    \/ unshare_single_call
    \/ unshare_single_uid_map
    \/ unshare_single_deny
    \/ unshare_single_gid_map

SpecUs == InitUs /\ [][NextUs]_vars

\* ---------------------------------------------------------------------
\* popen_impl (koproc.hpp) and the descriptors it opens
\* ---------------------------------------------------------------------
\* what a descriptor opened by pipe2 refers to: pipefd[0] carries the
\* child's stdin, pipefd[1] its stdout; index 0 is the read end
End(i, j) ==
    IF i = 0 THEN (IF j = 0 THEN "stdin_r" ELSE "stdin_w")
    ELSE (IF j = 0 THEN "stdout_r" ELSE "stdout_w")

PipeEnds == {End(i, j) : i \in 0..1, j \in 0..1}

InitPoGroup ==
    /\ ppos = "pipe0"
    /\ \E open \in SUBSET (0..MaxInherited) :
        ptab = [n \in PFds |-> IF n \in open THEN "other" ELSE "closed"]
    /\ ptab0 = ptab
    /\ ctab = ClosedTab
    /\ pipefd = ZeroPipefd
    /\ popid = 0
    /\ popipe = NullPipe

InitPo == InitPoGroup /\ IdleClone /\ IdleCref /\ IdleFd /\ IdleSem /\ IdleCv /\ IdleSn /\ IdleReap /\ IdleOv /\ IdleUs /\ IdleIo /\ IdleMd /\ IdleRl /\ IdleCp /\ IdleMc /\ IdlePv /\ IdleMs /\ IdleSs /\ IdleXd /\ IdleDc

\* the lowest number that is closed in tab
Lowest(tab) == CHOOSE n \in PFds :
                  /\ tab[n] = "closed"
                  /\ \A m \in PFds : m < n => tab[m] # "closed"

\* ::close(n) in table tab
Closed(tab, n) == [tab EXCEPT ![n] = "closed"]

\* the table after a successful pipe2(pipefd[i]): two lowest free numbers
Piped(tab, i) ==
    LET r == Lowest(tab)
        w == Lowest([tab EXCEPT ![r] = End(i, 0)])
    IN [tab EXCEPT ![r] = End(i, 0), ![w] = End(i, 1)]

PipedFds(tab) ==
    LET r == Lowest(tab)
        w == Lowest([tab EXCEPT ![r] = "other"])
    IN [j \in 0..1 |-> IF j = 0 THEN r ELSE w]

\* return {pid, pipe}
PoReturn(pid, pipe) ==
    /\ ppos' = "returned"
    /\ popid' = pid
    /\ popipe' = pipe

\* if (::pipe2(pipefd[0].data(), 0)) return {-1, nullptr}
popen_pipe0 ==
    /\ ppos = "pipe0"
    /\ \/ /\ ptab' = Piped(ptab, 0)
          /\ pipefd' = [pipefd EXCEPT ![0] = PipedFds(ptab)]
          /\ ppos' = "pipe1"
          /\ UNCHANGED <<popid, popipe>>
       \/ /\ PoReturn(-1, NullPipe)
          /\ UNCHANGED <<ptab, pipefd>>
    /\ UNCHANGED <<ptab0, ctab>>
    /\ UNCHANGED notPo

\* if (::pipe2(pipefd[1].data(), 0)) { close both ends of pipefd[0]; return }
popen_pipe1 ==
    /\ ppos = "pipe1"
    /\ \/ /\ ptab' = Piped(ptab, 1)
          /\ pipefd' = [pipefd EXCEPT ![1] = PipedFds(ptab)]
          /\ ppos' = "vfork"
          /\ UNCHANGED <<popid, popipe>>
       \/ /\ ptab' = Closed(Closed(ptab, pipefd[0][0]), pipefd[0][1])
          /\ PoReturn(-1, NullPipe)
          /\ UNCHANGED pipefd
    /\ UNCHANGED <<ptab0, ctab>>
    /\ UNCHANGED notPo

\* pid = vfork(): the child runs on a copy of the descriptor table while
\* the parent is suspended, or there is no child
popen_vfork ==
    /\ ppos = "vfork"
    /\ \/ /\ ctab' = ptab
          /\ popid' = 1
          /\ ppos' = "child_close"
       \/ /\ popid' = -1
          /\ ppos' = "parent_close"
          /\ UNCHANGED ctab
    /\ UNCHANGED <<ptab, ptab0, pipefd, popipe>>
    /\ UNCHANGED notPo

\* child: close the parent ends
popen_child_close ==
    /\ ppos = "child_close"
    /\ ctab' = Closed(Closed(ctab, pipefd[0][1]), pipefd[1][0])
    /\ ppos' = "child_dup2"
    /\ UNCHANGED <<ptab, ptab0, pipefd, popid, popipe>>
    /\ UNCHANGED notPo

\* child: dup2 onto 0 and 1; _exit(-1) when one fails, and the parent
\* resumes
popen_child_dup2 ==
    /\ ppos = "child_dup2"
    /\ \/ /\ ctab' = ClosedTab
          /\ ppos' = "parent_close"
       \/ /\ ctab' = [ctab EXCEPT ![0] = ctab[pipefd[0][0]],
                                  ![1] = ctab[pipefd[1][1]]]
          /\ ppos' = "child_exec"
    /\ UNCHANGED <<ptab, ptab0, pipefd, popid, popipe>>
    /\ UNCHANGED notPo

\* child: close the superfluous child ends and exec; the parent resumes
popen_child_exec ==
    /\ ppos = "child_exec"
    /\ ctab' = Closed(Closed(ctab, pipefd[0][0]), pipefd[1][1])
    /\ ppos' = "parent_close"
    /\ UNCHANGED <<ptab, ptab0, pipefd, popid, popipe>>
    /\ UNCHANGED notPo

\* mutant of CloseChildEnds: the two read ends are closed
CloseReadEnds(tab) == Closed(Closed(tab, pipefd[0][0]), pipefd[1][0])

\* ::close(pipefd[0][0]); ::close(pipefd[1][1])
CloseChildEnds(tab) == Closed(Closed(tab, pipefd[0][0]), pipefd[1][1])

\* parent: close the child ends; if (pid < 0) close the parent ends and
\* return {pid, nullptr}; else return {pid, pipe(pipefd[1][0], pipefd[0][1])}
popen_parent ==
    /\ ppos = "parent_close"
    /\ IF popid < 0
       THEN /\ ptab' = Closed(Closed(CloseChildEnds(ptab), pipefd[0][1]),
                              pipefd[1][0])
            /\ PoReturn(popid, NullPipe)
       ELSE /\ ptab' = CloseChildEnds(ptab)
            /\ PoReturn(popid, [rfd |-> pipefd[1][0], wfd |-> pipefd[0][1],
                                null |-> FALSE])
    /\ UNCHANGED <<ptab0, ctab, pipefd>>
    /\ UNCHANGED notPo

NextPo ==
    \/ popen_pipe0
    \/ popen_pipe1
    \/ popen_vfork
    \/ popen_child_close
    \/ popen_child_dup2
    \/ popen_child_exec
    \/ popen_parent

SpecPo == InitPo /\ [][NextPo]_vars

\* ---------------------------------------------------------------------
\* ko::fd::read / ko::fd::write: the retry loops (kofd.hpp)
\* ---------------------------------------------------------------------
MaxSize == 3

ETIMEDOUT == 110

IoKinds == {"read", "write", "timed"}

\* errno as the caller left it
StaleErrno == {0, ETIMEDOUT} \cup ErrnoVals

\* mutant of LoopHead: return after the first transfer
LoopHeadOnce(kind, h, size) == "returned"

\* while (have < size): where the loop goes next
LoopHead(kind, h, size) ==
    IF h < size THEN (IF kind = "timed" THEN "select" ELSE "xfer")
    ELSE "returned"

\* mutant of SelectTimedOut: errno is left as it was
SelectTimedOutKeep(e) == e

\* rv == 0: errno = ETIMEDOUT
SelectTimedOut(e) == ETIMEDOUT

InitIoGroup ==
    /\ iokind \in IoKinds
    /\ iosize \in 0..MaxSize
    /\ have = 0
    /\ moved = 0
    /\ ioerrno \in StaleErrno
    /\ iolast = "none"
    /\ iopc = LoopHead(iokind, 0, iosize)

InitIo == InitIoGroup /\ IdleClone /\ IdleCref /\ IdleFd /\ IdleSem /\ IdleCv /\ IdleSn /\ IdleReap /\ IdleOv /\ IdleUs /\ IdlePo /\ IdleMd /\ IdleRl /\ IdleCp /\ IdleMc /\ IdlePv /\ IdleMs /\ IdleSs /\ IdleXd /\ IdleDc

\* break out of the loop: return have
IoBreak(last, e) ==
    /\ iopc' = "returned"
    /\ iolast' = last
    /\ ioerrno' = e
    /\ UNCHANGED <<have, moved>>

\* rv = select(fd + 1, &fds, nullptr, nullptr, &timeout)
fd_read_select ==
    /\ iopc = "select"
    /\ \/ IoBreak("timeout", SelectTimedOut(ioerrno))
       \/ \E e \in ErrnoVals : IoBreak("selerr", e)
       \/ /\ iopc' = "xfer"
          /\ UNCHANGED <<have, moved, ioerrno, iolast>>
    /\ UNCHANGED <<iokind, iosize>>
    /\ UNCHANGED notIo

\* got = ::read / ::write(fd, buf + have, size - have), then the tests
fd_transfer ==
    /\ iopc = "xfer"
    /\ \/ IoBreak("eof", 0)
       \/ \E e \in ErrnoVals : IoBreak("error", e)
       \/ \E got \in 1..(iosize - have) :
            /\ have' = have + got
            /\ moved' = moved + got
            /\ iolast' = "data"
            /\ iopc' = LoopHead(iokind, have + got, iosize)
            /\ UNCHANGED ioerrno
    /\ UNCHANGED <<iokind, iosize>>
    /\ UNCHANGED notIo

NextIo ==
    \/ fd_read_select
    \/ fd_transfer

SpecIo == InitIo /\ [][NextIo]_vars

\* ---------------------------------------------------------------------
\* makedirs (kofd.hpp): paths are sequences of components, a name or ".."
\* ---------------------------------------------------------------------
MaxDepth == 3

PathComps == {"name", ".."}

Paths == UNION {[1..n -> PathComps] : n \in 1..MaxDepth}

\* a file system node: the positions (in the path) of the names that lead
\* to it from the directory the path is relative to
RECURSIVE Increasing(_)
Increasing(q) ==
    Len(q) < 2 \/ (q[1] < q[2] /\ Increasing(Tail(q)))

Nodes == {q \in UNION {[1..n -> 1..MaxDepth] : n \in 0..MaxDepth} : Increasing(q)}

ParentNode(q) == IF q = <<>> THEN <<>> ELSE SubSeq(q, 1, Len(q) - 1)

\* the kernel's walk along the first n components of p, from component i
\* on, standing in directory cur: where it ends and with what
RECURSIVE Walk(_, _, _, _, _, _)
Walk(dirs, files, p, n, i, cur) ==
    IF i > n THEN [st |-> "dir", node |-> cur, at |-> i]
    ELSE IF p[i] = ".." THEN Walk(dirs, files, p, n, i + 1, ParentNode(cur))
    ELSE LET child == Append(cur, i)
         IN IF child \in dirs THEN Walk(dirs, files, p, n, i + 1, child)
            ELSE IF child \in files
            THEN [st |-> IF i = n THEN "file" ELSE "ENOTDIR",
                  node |-> child, at |-> i]
            ELSE [st |-> "ENOENT", node |-> child, at |-> i]

\* fstatat(dirfd, prefix of n components, &st, 0); the empty path is "."
Stat(n) == Walk(mddirs, mdfiles, mdpath, n, 1, <<>>)

\* mkdirat of the prefix of n components succeeds when only its last
\* component is missing
CanMkdir(n) == Stat(n).st = "ENOENT" /\ Stat(n).at = n

InitMdGroup ==
    /\ mdpath \in Paths
    /\ mddirs \in {d \in SUBSET Nodes :
                    /\ <<>> \in d
                    /\ \A q \in d : ParentNode(q) \in d}
    /\ mdfiles \in {f \in SUBSET (Nodes \ mddirs) :
                    /\ Cardinality(f) <= 1
                    /\ \A q \in f : ParentNode(q) \in mddirs}
    /\ \A q \in mddirs \cup mdfiles :
            \A j \in 1..Len(q) : q[j] <= Len(mdpath) /\ mdpath[q[j]] = "name"
    /\ mddirs0 = mddirs
    /\ mdlevel = Len(mdpath)
    /\ mdphase = "stat"
    /\ mdval = 0
    /\ mdfailed = FALSE

InitMd == InitMdGroup /\ IdleClone /\ IdleCref /\ IdleFd /\ IdleSem /\ IdleCv /\ IdleSn /\ IdleReap /\ IdleOv /\ IdleUs /\ IdlePo /\ IdleIo /\ IdleRl /\ IdleCp /\ IdleMc /\ IdlePv /\ IdleMs /\ IdleSs /\ IdleXd /\ IdleDc

\* the call on the prefix of mdlevel components returns v to its caller,
\* which goes on with mkdir, or to the caller of makedirs
MdReturn(v) ==
    /\ mdval' = v
    /\ IF mdlevel = Len(mdpath)
       THEN /\ mdphase' = "returned"
            /\ UNCHANGED <<mdlevel, mdfailed>>
       ELSE /\ mdphase' = "mkdir"
            /\ mdlevel' = mdlevel + 1
            /\ mdfailed' = (mdfailed \/ v < 0)

\* return parents + 1, whatever parents is
KeepParents(parents) == parents + 1

\* the head of makedirs: fstatat, return 0 for a directory, -1 for
\* another file or another error, recurse into the parent on ENOENT
makedirs_stat ==
    /\ mdphase = "stat"
    /\ \/ /\ Stat(mdlevel).st = "dir"
          /\ MdReturn(0)
       \/ /\ Stat(mdlevel).st \in {"file", "ENOTDIR"}
          /\ MdReturn(-1)
       \/ \* fstatat fails with something else (EACCES, ELOOP, ...)
          MdReturn(-1)
       \/ /\ Stat(mdlevel).st = "ENOENT"
          /\ IF mdlevel = 0
             THEN MdReturn(-1)
             ELSE /\ mdlevel' = mdlevel - 1
                  /\ UNCHANGED <<mdphase, mdval, mdfailed>>
    /\ UNCHANGED <<mdpath, mddirs, mdfiles, mddirs0>>
    /\ UNCHANGED notMd

\* the tail of makedirs: if (mkdir(path)) return -1; return parents + 1
makedirs_mkdir ==
    /\ mdphase = "mkdir"
    /\ \/ /\ CanMkdir(mdlevel)
          /\ mddirs' = mddirs \cup {Stat(mdlevel).node}
          /\ MdReturn(KeepParents(mdval))
       \/ \* EEXIST, ENOENT, ENOTDIR, or EACCES, ENOSPC, ...
          /\ UNCHANGED mddirs
          /\ MdReturn(-1)
    /\ UNCHANGED <<mdpath, mdfiles, mddirs0>>
    /\ UNCHANGED notMd

NextMd ==
    \/ makedirs_stat
    \/ makedirs_mkdir

SpecMd == InitMd /\ [][NextMd]_vars

\* ---------------------------------------------------------------------
\* readlink and readlink_or_path (kofd.hpp)
\* ---------------------------------------------------------------------
static_bufsize == 4096

MaxShort == 2

MaxExtra == 3

\* lengths of link targets: short ones and those around the buffer size
TargetLens ==
    (1..MaxShort) \cup ((static_bufsize - 1)..(static_bufsize + MaxExtra))

LinkFiles ==
    [kind : {"symlink"}, len : TargetLens, rel : BOOLEAN]
        \cup [kind : {"other", "missing"}, len : {0}, rel : {FALSE}]

InitRlGroup ==
    /\ rlpc = "readlinkat"
    /\ rlfile \in LinkFiles
    /\ rlok \in BOOLEAN
    /\ rlsz = 0
    /\ rlstsize = 0
    /\ rltarget = EmptyPath
    /\ rlerrno \in {0, EINVAL}
    /\ rlfailed = FALSE
    /\ rlres = "none"

InitRl == InitRlGroup /\ IdleClone /\ IdleCref /\ IdleFd /\ IdleSem /\ IdleCv /\ IdleSn /\ IdleReap /\ IdleOv /\ IdleUs /\ IdlePo /\ IdleIo /\ IdleMd /\ IdleCp /\ IdleMc /\ IdlePv /\ IdleMs /\ IdleSs /\ IdleXd /\ IdleDc

Min(a, b) == IF a < b THEN a ELSE b

\* ::readlinkat(dirfd, path, buf, bufsiz) on a symlink: bytes placed in buf
Readlinkat(bufsiz) == Min(rlfile.len, bufsiz)

\* readlink returns v; readlink_or_path goes on from there
ReadlinkReturns(v, e, failed) ==
    /\ rltarget' = v
    /\ rlerrno' = e
    /\ rlfailed' = failed
    /\ rlpc' = "or_path"

\* sz = ::readlinkat(dirfd, path, buf, static_bufsize) and the two tests
readlink_first ==
    /\ rlpc = "readlinkat"
    /\ \/ /\ rlfile.kind = "other"
          /\ ReadlinkReturns(EmptyPath, EINVAL, FALSE)
          /\ UNCHANGED rlsz
       \/ /\ rlfile.kind = "missing"
          /\ ReadlinkReturns(EmptyPath, ENOENT, FALSE)
          /\ UNCHANGED rlsz
       \/ /\ rlfile.kind = "symlink"
          /\ ReadlinkReturns(EmptyPath, ENOMEM, TRUE)
          /\ UNCHANGED rlsz
       \/ /\ rlfile.kind = "symlink"
          /\ rlsz' = Readlinkat(static_bufsize)
          /\ IF Readlinkat(static_bufsize) < static_bufsize
             THEN ReadlinkReturns([empty |-> FALSE, len |-> Readlinkat(static_bufsize)],
                                  rlerrno, FALSE)
             ELSE /\ rlpc' = "fstatat"
                  /\ UNCHANGED <<rltarget, rlerrno, rlfailed>>
    /\ UNCHANGED <<rlfile, rlok, rlstsize, rlres>>
    /\ UNCHANGED notRl

\* ::fstatat(dirfd, path, &st, AT_SYMLINK_NOFOLLOW); extbuf of st.st_size
readlink_fstatat ==
    /\ rlpc = "fstatat"
    /\ \/ /\ ReadlinkReturns(EmptyPath, ENOMEM, TRUE)
          /\ UNCHANGED rlstsize
       \/ /\ rlstsize' = rlfile.len
          /\ rlpc' = "readlinkat2"
          /\ UNCHANGED <<rltarget, rlerrno, rlfailed>>
    /\ UNCHANGED <<rlfile, rlok, rlsz, rlres>>
    /\ UNCHANGED notRl

\* the bufsiz argument of the second readlinkat: sz
SecondBufsiz(sz, stsize) == sz

\* sz = ::readlinkat(dirfd, path, extbuf.get(), sz); return the sz bytes
readlink_second ==
    /\ rlpc = "readlinkat2"
    /\ \/ /\ ReadlinkReturns(EmptyPath, ENOMEM, TRUE)
          /\ UNCHANGED rlsz
       \/ /\ rlsz' = Readlinkat(SecondBufsiz(rlsz, rlstsize))
          /\ ReadlinkReturns([empty |-> FALSE,
                              len |-> Readlinkat(SecondBufsiz(rlsz, rlstsize))],
                             rlerrno, FALSE)
    /\ UNCHANGED <<rlfile, rlok, rlstsize, rlres>>
    /\ UNCHANGED notRl

\* mutant of PassAsIs: a missing path is never handed back
PassAsIsEinval(e, ok) == e = EINVAL

\* errno == EINVAL || (errno == ENOENT && notexist_ok)
PassAsIs(e, ok) == e = EINVAL \/ (e = ENOENT /\ ok)

\* readlink_or_path after its call of readlink
readlink_or_path ==
    /\ rlpc = "or_path"
    /\ rlres' = IF rltarget.empty
                THEN (IF PassAsIs(rlerrno, rlok) THEN "path" ELSE "empty")
                ELSE (IF rlfile.rel THEN "joined" ELSE "target")
    /\ rlpc' = "returned"
    /\ UNCHANGED <<rlfile, rlok, rlsz, rlstsize, rltarget, rlerrno, rlfailed>>
    /\ UNCHANGED notRl

NextRl ==
    \/ readlink_first
    \/ readlink_fstatat
    \/ readlink_second
    \/ readlink_or_path

SpecRl == InitRl /\ [][NextRl]_vars

\* ---------------------------------------------------------------------
\* copy0, fcopy and fcopy_raw (kofd.hpp)
\* ---------------------------------------------------------------------
MaxFile == 3

ENOSYS == 38

EXDEV == 18

bufsz == 8192

\* errno values of a failed copy_file_range or sendfile
CopyErrnos == {ENOSYS, EXDEV, EINVAL, ENOMEM}

InitCpGroup ==
    /\ cppc = "copy0"
    /\ cpsize \in 0..MaxFile
    /\ cplen = 0
    /\ cpcopied = 0
    /\ cplog = <<>>
    /\ cperrno = 0
    /\ cpclone = "none"
    /\ cpret = FALSE
    /\ cpeof = FALSE
    /\ cptick = FALSE

InitCp == InitCpGroup /\ IdleClone /\ IdleCref /\ IdleFd /\ IdleSem /\ IdleCv /\ IdleSn /\ IdleReap /\ IdleOv /\ IdleUs /\ IdlePo /\ IdleIo /\ IdleMd /\ IdleRl /\ IdleMc /\ IdlePv /\ IdleMs /\ IdleSs /\ IdleXd /\ IdleDc

\* the byte counts a copy_file_range, sendfile or read for n bytes can
\* return: 0 at the end of the source, and only 0 from then on
SourceGives(n) == IF cpeof THEN {0} ELSE 0..n

\* a mechanism is called: cplog keeps the order of the first calls
Called(m) ==
    IF cplog # <<>> /\ cplog[Len(cplog)] = m THEN cplog ELSE Append(cplog, m)

CopyReturn(v) ==
    /\ cpret' = v
    /\ cppc' = "returned"

\* fstatat, open(src), open_creat(dst): any of them may fail
copy0_open ==
    /\ cppc = "copy0"
    /\ \/ CopyReturn(FALSE)
       \/ /\ cppc' = "ficlone"
          /\ UNCHANGED cpret
    /\ UNCHANGED <<cpsize, cplen, cpcopied, cplog, cperrno, cpclone, cpeof, cptick>>
    /\ UNCHANGED notCp

\* return ret == st.st_size
CloneResult(ret, size) == ret = size

\* int ret = ::ioctl(fd, FICLONE, (int)fs): 0 when the file was cloned
copy0_ficlone ==
    /\ cppc = "ficlone"
    /\ \E ret \in {0, -1} :
          /\ cpclone' = IF ret # -1 THEN "cloned" ELSE "failed"
          /\ IF ret # -1
             THEN /\ cpcopied' = cpsize
                  /\ CopyReturn(CloneResult(ret, cpsize))
                  /\ UNCHANGED cplen
             ELSE /\ cplen' = cpsize
                  /\ cppc' = "copy_file_range"
                  /\ UNCHANGED <<cpcopied, cpret>>
    /\ UNCHANGED <<cpsize, cplog, cperrno, cpeof, cptick>>
    /\ UNCHANGED notCp

\* mutant of NotSupported: no errno sends fcopy on to sendfile
NotSupportedNever(e) == FALSE

\* errno == ENOSYS || errno == EXDEV || errno == EINVAL
NotSupported(e) == e \in {ENOSYS, EXDEV, EINVAL}

\* the first loop of fcopy: one test of len and one copy_file_range
fcopy_copy_file_range ==
    /\ cppc = "copy_file_range"
    /\ IF cplen = 0
       THEN /\ CopyReturn(TRUE)
            /\ UNCHANGED <<cplen, cpcopied, cplog, cperrno, cpeof, cptick>>
       ELSE /\ cplog' = Called("copy_file_range")
            /\ \/ \E e \in CopyErrnos :
                     /\ cperrno' = e
                     /\ cppc' = IF NotSupported(e) THEN "sendfile" ELSE "fcopy_raw"
                     /\ UNCHANGED <<cplen, cpcopied, cpret, cpeof>>
               \/ \E r \in SourceGives(cplen) :
                     /\ cplen' = cplen - r
                     /\ cpcopied' = cpcopied + r
                     /\ cpeof' = (r = 0)
                     /\ UNCHANGED <<cppc, cperrno, cpret>>
            /\ cptick' = ~cptick
    /\ UNCHANGED <<cpsize, cpclone>>
    /\ UNCHANGED notCp

\* the second loop of fcopy: one test of len and one sendfile
fcopy_sendfile ==
    /\ cppc = "sendfile"
    /\ IF cplen = 0
       THEN /\ CopyReturn(TRUE)
            /\ UNCHANGED <<cplen, cpcopied, cplog, cperrno, cpeof, cptick>>
       ELSE /\ cplog' = Called("sendfile")
            /\ \/ \E e \in CopyErrnos :
                     /\ cperrno' = e
                     /\ cppc' = "fcopy_raw"
                     /\ UNCHANGED <<cplen, cpcopied, cpret, cpeof>>
               \/ \E r \in SourceGives(cplen) :
                     /\ cplen' = cplen - r
                     /\ cpcopied' = cpcopied + r
                     /\ cpeof' = (r = 0)
                     /\ UNCHANGED <<cppc, cperrno, cpret>>
            /\ cptick' = ~cptick
    /\ UNCHANGED <<cpsize, cpclone>>
    /\ UNCHANGED notCp

\* one round of the loop of fcopy_raw(fs, fd, len)
fcopy_raw ==
    /\ cppc = "fcopy_raw"
    /\ cplog' = Called("fcopy_raw")
    /\ \E nread \in SourceGives(Min(cplen, bufsz)), readfailed \in BOOLEAN :
          \/ /\ nread < Min(cplen, bufsz)
             /\ readfailed
             /\ CopyReturn(FALSE)
             /\ UNCHANGED <<cplen, cpcopied>>
          \/ /\ nread = Min(cplen, bufsz) \/ ~readfailed
             /\ \E written \in 0..nread :
                   /\ cpcopied' = cpcopied + written
                   /\ IF written < nread
                      THEN CopyReturn(FALSE) /\ UNCHANGED cplen
                      ELSE IF nread < Min(cplen, bufsz)
                      THEN CopyReturn(TRUE) /\ UNCHANGED cplen
                      ELSE /\ cplen' = cplen - nread
                           /\ IF cplen - nread > 0
                              THEN UNCHANGED <<cppc, cpret>>
                              ELSE CopyReturn(TRUE)
    /\ UNCHANGED <<cpsize, cperrno, cpclone, cpeof, cptick>>
    /\ UNCHANGED notCp

NextCp ==
    \/ copy0_open
    \/ copy0_ficlone
    \/ fcopy_copy_file_range
    \/ fcopy_sendfile
    \/ fcopy_raw

SpecCp == InitCp /\ [][NextCp]_vars

\* the loops run on: every step that is possible is taken
SpecCpFair == SpecCp /\ WF_vars(NextCp)

\* ---------------------------------------------------------------------
\* mount_core (kons.hpp), os::mount and os::bind (koos.hpp)
\* ---------------------------------------------------------------------
\* the labels of the chain, in the order of its calls
MountLabels ==
    <<"mount_root", "mount_proc", "mount_sys", "mount_dev", "mount_tmp", "mount_run">>

\* the directory under root each step after the first asks for
MountDirs == <<"", "proc", "sys", "dev", "tmp", "run">>

CoreDirs == {MountDirs[i] : i \in 2..Len(MountDirs)}

\* os::mount / os::bind: 0, or errno when ::mount failed
MountResults == {0} \cup ErrnoVals

InitMcGroup ==
    /\ mcpc = 1
    /\ mcenv \in [mounted : BOOLEAN, dirs : SUBSET CoreDirs]
    /\ mccv = EmptyCv
    /\ mclog = <<>>
    /\ mcres = AsCvresult(EmptyCv)

InitMc == InitMcGroup /\ IdleClone /\ IdleCref /\ IdleFd /\ IdleSem /\ IdleCv /\ IdleSn /\ IdleReap /\ IdleOv /\ IdleUs /\ IdlePo /\ IdleIo /\ IdleMd /\ IdleRl /\ IdleCp /\ IdlePv /\ IdleMs /\ IdleSs /\ IdleXd /\ IdleDc

\* os::is_mountpoint(root): root is an mnt_dir of /proc/self/mounts
is_mountpoint == mcenv.mounted

\* mutant of MountCond: every mount is wanted
MountCondAlways(i) == TRUE

\* the bool argument of the i-th ifthen
MountCond(i) ==
    IF i = 1 THEN ~is_mountpoint ELSE MountDirs[i] \in mcenv.dirs

\* the i-th .ifthen(label, cond, bind or mount, ...) of the chain
mount_core_ifthen ==
    /\ mcpc \in 1..Len(MountLabels)
    /\ \E r \in (IF mccv.state = 0 /\ MountCond(mcpc) THEN MountResults ELSE {0}) :
          /\ mccv' = ifthen_named(mccv, MountLabels[mcpc], MountCond(mcpc), r)
          /\ mclog' = IF ifthen_named(mccv, MountLabels[mcpc], MountCond(mcpc), r).called
                      THEN Append(mclog, [label |-> MountLabels[mcpc], code |-> r])
                      ELSE mclog
    /\ mcpc' = mcpc + 1
    /\ UNCHANGED <<mcenv, mcres>>
    /\ UNCHANGED notMc

\* return of the chain through operator cvresult()
mount_core_return ==
    /\ mcpc = Len(MountLabels) + 1
    /\ mcres' = AsCvresult(mccv)
    /\ mcpc' = mcpc + 1
    /\ UNCHANGED <<mcenv, mccv, mclog>>
    /\ UNCHANGED notMc

NextMc ==
    \/ mount_core_ifthen
    \/ mount_core_return

SpecMc == InitMc /\ [][NextMc]_vars

\* ---------------------------------------------------------------------
\* nsproc_create: the mount chain (steamns.cpp), mount::pivot_root (kons.hpp)
\* ---------------------------------------------------------------------
\* what mount_gui returns: its chain of "mount_gui" binds
GuiResults ==
    {[state |-> 0, where |-> NullLabel]} \cup
    {[state |-> e, where |-> "mount_gui"] : e \in ErrnoVals}

InitPvGroup ==
    /\ pvconf \in [mounts : BOOLEAN, gui_mounts : BOOLEAN, keep_root : BOOLEAN,
                   run_media : BOOLEAN]
    /\ pvpc = IF pvconf.mounts THEN "base" ELSE "report"
    /\ pvcv = EmptyCv
    /\ pvin = EmptyCv
    /\ pvlog = <<>>
    /\ pvret = NoRet
    /\ pvfut \in {[given |-> g, posts |-> <<>>, ready |-> 0,
                   driver |-> IF g THEN "waiting" ELSE "none"] : g \in BOOLEAN}

InitPv == InitPvGroup /\ IdleClone /\ IdleCref /\ IdleFd /\ IdleSem /\ IdleCv /\ IdleSn /\ IdleReap /\ IdleOv /\ IdleUs /\ IdlePo /\ IdleIo /\ IdleMd /\ IdleRl /\ IdleCp /\ IdleMc /\ IdleMs /\ IdleSs /\ IdleXd /\ IdleDc

\* the log after a call on a chain: only a callable that ran is entered
PvLogged(next, label, code) ==
    IF next.called THEN Append(pvlog, [label |-> label, code |-> code]) ELSE pvlog

\* .then([&conf, &root]() -> cvresult {...}): the base system mounts
nsproc_base ==
    /\ pvpc = "base"
    /\ \E rv \in CallableResults :
          /\ pvcv' = then_result(pvcv, rv)
          /\ pvlog' = PvLogged(then_result(pvcv, rv), "base", rv.state)
    /\ pvpc' = "bind_run_media"
    /\ UNCHANGED <<pvconf, pvin, pvret, pvfut>>
    /\ UNCHANGED notPv

\* .ifthen("bind_run_media", fs::exists(run_media_path), [...]() {...})
nsproc_bind_run_media ==
    /\ pvpc = "bind_run_media"
    /\ \E r \in (IF pvcv.state = 0 /\ pvconf.run_media
                 THEN {0, 1} \cup ErrnoVals ELSE {0}) :
          /\ pvcv' = ifthen_named(pvcv, "bind_run_media", pvconf.run_media, r)
          /\ pvlog' = PvLogged(ifthen_named(pvcv, "bind_run_media", pvconf.run_media, r),
                               "bind_run_media", r)
    /\ pvpc' = "mount_gui"
    /\ UNCHANGED <<pvconf, pvin, pvret, pvfut>>
    /\ UNCHANGED notPv

\* .ifthen(conf.gui_mounts, ko::ns::mount::mount_gui, ...)
nsproc_mount_gui ==
    /\ pvpc = "mount_gui"
    /\ \E rv \in (IF pvcv.state = 0 /\ pvconf.gui_mounts
                  THEN GuiResults ELSE {[state |-> 0, where |-> NullLabel]}) :
          /\ pvcv' = ifthen_result(pvcv, pvconf.gui_mounts, rv)
          /\ pvlog' = PvLogged(ifthen_result(pvcv, pvconf.gui_mounts, rv),
                               "mount_gui", rv.state)
    /\ pvpc' = "pivot_root"
    /\ UNCHANGED <<pvconf, pvin, pvret, pvfut>>
    /\ UNCHANGED notPv

\* .then(ko::ns::mount::pivot_root, root, "mnt", conf.keep_root): the call
\* is made when _state == 0; pivot_root first creates new_root / old_root,
\* and fs::create_directories throws when it cannot
nsproc_then_pivot_root ==
    /\ pvpc = "pivot_root"
    /\ IF pvcv.state = 0
       THEN \E created \in BOOLEAN :
               pvpc' = IF created THEN "pivot_syscall" ELSE "terminated"
       ELSE pvpc' = "report"
    /\ UNCHANGED <<pvconf, pvcv, pvin, pvlog, pvret, pvfut>>
    /\ UNCHANGED notPv

\* .then("pivot_root", syscall, SYS_pivot_root, new_root, path)
pivot_root_syscall ==
    /\ pvpc = "pivot_syscall"
    /\ \E r \in (IF pvin.state = 0 THEN {0, -1} ELSE {0}) :
          /\ pvin' = then_named(pvin, "pivot_root", r)
          /\ pvlog' = PvLogged(then_named(pvin, "pivot_root", r), "pivot_root", r)
    /\ pvpc' = "chdir_root"
    /\ UNCHANGED <<pvconf, pvcv, pvret, pvfut>>
    /\ UNCHANGED notPv

\* .then("chdir_root", chdir, "/")
pivot_root_chdir ==
    /\ pvpc = "chdir_root"
    /\ \E r \in (IF pvin.state = 0 THEN {0, -1} ELSE {0}) :
          /\ pvin' = then_named(pvin, "chdir_root", r)
          /\ pvlog' = PvLogged(then_named(pvin, "chdir_root", r), "chdir_root", r)
    /\ pvpc' = "umount_oldroot"
    /\ UNCHANGED <<pvconf, pvcv, pvret, pvfut>>
    /\ UNCHANGED notPv

\* mutant of UmountWanted: the old root is always detached
UmountWantedAlways(keep_old) == TRUE

\* the bool argument !keep_old
UmountWanted(keep_old) == ~keep_old

\* .ifthen("umount_oldroot", !keep_old, umount2, old_root, MNT_DETACH)
\* and the return of the chain to nsproc_create's then()
pivot_root_umount ==
    /\ pvpc = "umount_oldroot"
    /\ \E r \in (IF pvin.state = 0 /\ UmountWanted(pvconf.keep_root)
                 THEN {0, -1} ELSE {0}) :
          LET last == ifthen_named(pvin, "umount_oldroot",
                                   UmountWanted(pvconf.keep_root), r)
          IN  /\ pvin' = last
              /\ pvlog' = PvLogged(last, "umount_oldroot", r)
              /\ pvcv' = then_result(pvcv, AsCvresult(last))
    /\ pvpc' = "report"
    /\ UNCHANGED <<pvconf, pvret, pvfut>>
    /\ UNCHANGED notPv

\* proc_future<T>::post: value = v; sem_post(&ready)
proc_future_post(f, v) ==
    [f EXCEPT !.posts = Append(@, v), !.ready = @ + 1]

\* if (err) { if (report) report->post(1); ... }  if (report) report->post(0);
nsproc_report ==
    /\ pvpc = "report"
    /\ LET v == IF pvcv.state # 0 THEN 1 ELSE 0
       IN  /\ pvret' = v
           /\ pvfut' = IF pvfut.given THEN proc_future_post(pvfut, v) ELSE pvfut
    /\ pvpc' = "done"
    /\ UNCHANGED <<pvconf, pvcv, pvin, pvlog>>
    /\ UNCHANGED notPv

\* return xerror(where) after a failed chain; otherwise exec_app(conf),
\* or pid1() in dummy mode
nsproc_run ==
    /\ pvpc = "done"
    /\ \E dummy_mode \in BOOLEAN :
          pvpc' = IF pvret = 1 THEN "xerror"
                  ELSE IF dummy_mode THEN "pid1" ELSE "exec_app"
    /\ UNCHANGED <<pvconf, pvcv, pvin, pvlog, pvret, pvfut>>
    /\ UNCHANGED notPv

\* main, after uvclone_single returned a child: ns_future->wait(), that is
\* sem_wait(&ready), which returns once a post was made
ns_future_wait ==
    /\ pvfut.driver = "waiting"
    /\ pvfut.ready > 0
    /\ pvfut' = [pvfut EXCEPT !.ready = @ - 1, !.driver = "released"]
    /\ UNCHANGED <<pvpc, pvconf, pvcv, pvin, pvlog, pvret>>
    /\ UNCHANGED notPv

NextPv ==
    \/ nsproc_base
    \/ nsproc_bind_run_media
    \/ nsproc_mount_gui
    \/ nsproc_then_pivot_root
    \/ pivot_root_syscall
    \/ pivot_root_chdir
    \/ pivot_root_umount
    \/ nsproc_report
    \/ nsproc_run
    \/ ns_future_wait

SpecPv == InitPv /\ [][NextPv]_vars

\* the child and the driver are processes that keep running
SpecPvFair == SpecPv /\ WF_vars(NextPv)

\* ---------------------------------------------------------------------
\* mount_spec::execute (overlayns.cpp)
\* ---------------------------------------------------------------------
\* enum class mkdir_mode
MkdirModes == {"never", "maybe_this", "maybe_all", "require_this", "require_all"}

\* the type field after parse: "" for bind and rbind
MountTypes == {"", "overlay", "tmpfs"}

InitMsGroup ==
    /\ mspc = "execute"
    /\ msspec \in [type : MountTypes, mkdir : MkdirModes]
    /\ mspoint \in {"dir", "file", "missing", "orphan"}
    /\ mslog = <<>>
    /\ msret = NoRet

InitMs == InitMsGroup /\ IdleClone /\ IdleCref /\ IdleFd /\ IdleSem /\ IdleCv /\ IdleSn /\ IdleReap /\ IdleOv /\ IdleUs /\ IdlePo /\ IdleIo /\ IdleMd /\ IdleRl /\ IdleCp /\ IdleMc /\ IdlePv /\ IdleSs /\ IdleXd /\ IdleDc

\* fs::exists(mountpoint)
MountpointExists == mspoint \in {"dir", "file"}

\* mkdir == maybe_all || mkdir == require_all
CreateAll(m) == m \in {"maybe_all", "require_all"}

\* mkdir == maybe_this || mkdir == require_this
CreateThis(m) == m \in {"maybe_this", "require_this"}

\* mutant of MustCreate: an existing mountpoint is never refused
MustCreateNever(m) == FALSE

\* mkdir == require_this || mkdir == require_all
MustCreate(m) == m \in {"require_this", "require_all"}

\* fs::create_directories / fs::create_directory: the directory exists
\* afterwards, or the call throws (create_directory always does when the
\* parent is missing)
MsCreate(call) ==
    /\ mslog' = Append(mslog, call)
    /\ \/ /\ call = "create_directories" \/ mspoint = "missing"
          /\ mspoint' = "dir"
          /\ mspc' = "mount"
       \/ /\ mspc' = "threw"
          /\ UNCHANGED mspoint

MsReturn(v) ==
    /\ msret' = v
    /\ mspc' = "returned"

\* the tests on fs::exists(mountpoint) and mkdir, with the creation
execute_mkdir ==
    /\ mspc = "execute"
    /\ IF ~MountpointExists
       THEN IF CreateAll(msspec.mkdir)
            THEN MsCreate("create_directories") /\ UNCHANGED msret
            ELSE IF CreateThis(msspec.mkdir)
            THEN MsCreate("create_directory") /\ UNCHANGED msret
            ELSE MsReturn(ErrMountpoint) /\ UNCHANGED <<mspoint, mslog>>
       ELSE IF MustCreate(msspec.mkdir)
            THEN MsReturn(ErrMountpoint) /\ UNCHANGED <<mspoint, mslog>>
            ELSE mspc' = "mount" /\ UNCHANGED <<mspoint, mslog, msret>>
    /\ UNCHANGED msspec
    /\ UNCHANGED notMs

\* auto res = os::mount(dev, dest, fstype, flags, margs); return res or 0
execute_mount ==
    /\ mspc = "mount"
    /\ mslog' = Append(mslog, "mount")
    /\ \E r \in MountResults : MsReturn(r)
    /\ UNCHANGED <<msspec, mspoint>>
    /\ UNCHANGED notMs

NextMs ==
    \/ execute_mkdir
    \/ execute_mount

SpecMs == InitMs /\ [][NextMs]_vars

\* ---------------------------------------------------------------------
\* str_split, its loops step by step (overlayns.cpp)
\* ---------------------------------------------------------------------
MaxStrLen == 4

MaxParts == 4

\* size_t arithmetic is modular; the width is scaled down to 8 bits
SizeMod == 256

npos == SizeMod - 1

\* the characters of s: a backslash, a comma, and "x" for any other
SplitChars == {"x", ",", "\\"}

SplitStrings == UNION {[1..n -> SplitChars] : n \in 0..MaxStrLen}

InitSsGroup ==
    /\ sspc = "outer"
    /\ ssstr \in SplitStrings
    /\ sstart = 0
    /\ snext = 0
    /\ sparts = <<>>
    /\ spushed = 0

InitSs == InitSsGroup /\ IdleClone /\ IdleCref /\ IdleFd /\ IdleSem /\ IdleCv /\ IdleSn /\ IdleReap /\ IdleOv /\ IdleUs /\ IdlePo /\ IdleIo /\ IdleMd /\ IdleRl /\ IdleCp /\ IdleMc /\ IdlePv /\ IdleMs /\ IdleXd /\ IdleDc

\* s[i] with the index counted from 0
CharAt(s, i) == s[i + 1]

\* s.find(',', pos): the first index >= pos that holds a comma, or npos
SvFind(s, pos) ==
    IF \E i \in pos..(Len(s) - 1) : CharAt(s, i) = ","
    THEN CHOOSE i \in pos..(Len(s) - 1) :
            /\ CharAt(s, i) = ","
            /\ \A j \in pos..(i - 1) : CharAt(s, j) # ","
    ELSE npos

\* s.substr(pos, count), for pos <= s.size(): count is cut at the end
SvSubstr(s, pos, count) ==
    SubSeq(s, pos + 1, pos + (IF count < Len(s) - pos THEN count ELSE Len(s) - pos))

\* parts.push_back(v)
PushBack(v) ==
    /\ sparts' = IF Len(sparts) < MaxParts THEN Append(sparts, v) ELSE sparts
    /\ spushed' = IF spushed <= MaxParts THEN spushed + 1 ELSE spushed

\* next > 0 && s[next-1] == '\\' && (next < 2 || s[next-2] != '\\')
EscapedAt(s, next) ==
    /\ next > 0
    /\ CharAt(s, next - 1) = "\\"
    /\ (next < 2 \/ CharAt(s, next - 2) # "\\")

\* the test of the outer while, and the last push_back behind the loop
str_split_outer ==
    /\ sspc = "outer"
    /\ snext' = SvFind(ssstr, sstart)
    /\ IF SvFind(ssstr, sstart) # npos
       THEN /\ sspc' = "inner"
            /\ UNCHANGED <<sparts, spushed>>
       ELSE /\ PushBack(SvSubstr(ssstr, sstart, npos))
            /\ sspc' = "returned"
    /\ UNCHANGED <<ssstr, sstart>>
    /\ UNCHANGED notSs

\* the test of the inner while and one round of it
str_split_inner ==
    /\ sspc = "inner"
    /\ IF EscapedAt(ssstr, snext)
       THEN /\ snext' = SvFind(ssstr, snext + 1)
            /\ sspc' = IF SvFind(ssstr, snext + 1) = npos THEN "push" ELSE "inner"
       ELSE /\ sspc' = "push"
            /\ UNCHANGED snext
    /\ UNCHANGED <<ssstr, sstart, sparts, spushed>>
    /\ UNCHANGED notSs

\* parts.push_back(s.substr(start, next - start)); start = next + 1;
str_split_push ==
    /\ sspc = "push"
    /\ PushBack(SvSubstr(ssstr, sstart, (snext - sstart) % SizeMod))
    /\ sstart' = (snext + 1) % SizeMod
    /\ sspc' = "outer"
    /\ UNCHANGED <<ssstr, snext>>
    /\ UNCHANGED notSs

NextSs ==
    \/ str_split_outer
    \/ str_split_inner
    \/ str_split_push

SpecSs == InitSs /\ [][NextSs]_vars

\* the loops run on: every step that is possible is taken
SpecSsFair == SpecSs /\ WF_vars(NextSs)

\* ---------------------------------------------------------------------
\* mount_gui: the narrowing of the X11 bind (kons.hpp)
\* ---------------------------------------------------------------------
MaxDisplayLen == 3

\* the characters of DISPLAY: the colon, a digit, a dot, a letter
DisplayChars == {":", "0", ".", "h"}

DisplayValues ==
    {Unset} \cup UNION {[1..n -> DisplayChars] : n \in 0..MaxDisplayLen}

\* KONS_BIND_X11: unset, "all" in any case, or something else
ModeValues == {Unset, <<"all">>, <<"ALL">>, <<"none">>}

InitXdGroup ==
    /\ xpc = "getenv"
    /\ xenv \in [mode : ModeValues, display : DisplayValues]
    /\ xdisplay = <<>>
    /\ xcur = <<>>
    /\ xfrag = X11Dir
    /\ xwarned = FALSE

InitXd == InitXdGroup /\ IdleClone /\ IdleCref /\ IdleFd /\ IdleSem /\ IdleCv /\ IdleSn /\ IdleReap /\ IdleOv /\ IdleUs /\ IdlePo /\ IdleIo /\ IdleMd /\ IdleRl /\ IdleCp /\ IdleMc /\ IdlePv /\ IdleMs /\ IdleSs /\ IdleDc

\* x11_mount_mode && !strcasecmp("all", x11_mount_mode)
BindAll(mode) == mode \in {<<"all">>, <<"ALL">>}

\* isdigit(*c)
isdigit(ch) == ch = "0"

\* if (display[0] == ':') display += 1
SkipColon(d) == IF d # <<>> /\ Head(d) = ":" THEN Tail(d) ELSE d

\* the lambda returns v: `if (!lambda()) std::cerr << "Warn: ..."`
X11Return(v) ==
    /\ xwarned' = ~v
    /\ xpc' = "done"

\* the two getenv calls with their tests, and the step over the colon
x11_getenv ==
    /\ xpc = "getenv"
    /\ IF BindAll(xenv.mode)
       THEN X11Return(TRUE) /\ UNCHANGED <<xdisplay, xcur>>
       ELSE IF xenv.display = Unset
       THEN X11Return(FALSE) /\ UNCHANGED <<xdisplay, xcur>>
       ELSE /\ xdisplay' = SkipColon(xenv.display)
            /\ xcur' = SkipColon(xenv.display)
            /\ xpc' = "scan"
            /\ UNCHANGED xwarned
    /\ UNCHANGED <<xenv, xfrag>>
    /\ UNCHANGED notXd

\* for (char *c = display; *c; c++) if (!isdigit(*c)) return false;
x11_scan ==
    /\ xpc = "scan"
    /\ IF xcur = <<>>
       THEN xpc' = "narrow" /\ UNCHANGED <<xcur, xwarned>>
       ELSE IF ~isdigit(Head(xcur))
       THEN X11Return(FALSE) /\ UNCHANGED xcur
       ELSE xcur' = Tail(xcur) /\ UNCHANGED <<xpc, xwarned>>
    /\ UNCHANGED <<xenv, xdisplay, xfrag>>
    /\ UNCHANGED notXd

\* create the directory, touch the socket, frags[0] = sockname
x11_narrow ==
    /\ xpc = "narrow"
    /\ xfrag' = X11Dir \o <<"/X">> \o xdisplay
    /\ X11Return(TRUE)
    /\ UNCHANGED <<xenv, xdisplay, xcur>>
    /\ UNCHANGED notXd

NextXd ==
    \/ x11_getenv
    \/ x11_scan
    \/ x11_narrow

SpecXd == InitXd /\ [][NextXd]_vars

\* ---------------------------------------------------------------------
\* do_clone: who owns the box and the stack (koproc.hpp, kons_clone.hpp)
\* ---------------------------------------------------------------------
CloneCallers == {"vclone", "svclone", "uvclone"}

InitDcGroup ==
    /\ dcpc = "new"
    /\ dccall \in [fn : CloneCallers, flags : SUBSET CloneFlags]
    /\ dcbox = "none"
    /\ dcstack = "none"
    /\ dcref = [pid |-> 0, cleanup |-> FALSE]
    /\ dckid = "none"

InitDc == InitDcGroup /\ IdleClone /\ IdleCref /\ IdleFd /\ IdleSem /\ IdleCv /\ IdleSn /\ IdleReap /\ IdleOv /\ IdleUs /\ IdlePo /\ IdleIo /\ IdleMd /\ IdleRl /\ IdleCp /\ IdleMc /\ IdlePv /\ IdleMs /\ IdleSs /\ IdleXd

\* auto data = new std::pair{fn, ...} (vclone, svclone), new std::tuple{...}
\* (uvclone), followed by the call of do_clone
clone_new_data ==
    /\ dcpc = "new"
    /\ dcbox' = "allocated"
    /\ dcpc' = "mmap"
    /\ UNCHANGED <<dccall, dcstack, dcref, dckid>>
    /\ UNCHANGED notDc

\* the box after `if (stack == MAP_FAILED) return {-ENOMEM};`
MmapFailed(box) == box

\* do_clone: mmap of the stack
do_clone_mmap ==
    /\ dcpc = "mmap"
    /\ \/ /\ dcbox' = MmapFailed(dcbox)
          /\ dcref' = [pid |-> -ENOMEM, cleanup |-> FALSE]
          /\ dcpc' = "returned"
          /\ UNCHANGED dcstack
       \/ /\ dcstack' = "mapped"
          /\ dcpc' = "clone"
          /\ UNCHANGED <<dcbox, dcref>>
    /\ UNCHANGED <<dccall, dckid>>
    /\ UNCHANGED notDc

\* do_clone: ::clone and what follows it
do_clone_clone ==
    /\ dcpc = "clone"
    /\ \/ \* pid < 0: delete data; munmap(stack, stacksize); return {pid}
          /\ dcbox' = "freed"
          /\ dcstack' = "unmapped"
          /\ dcref' = [pid |-> -1, cleanup |-> FALSE]
          /\ UNCHANGED dckid
       \/ \* return {pid, make_cleanup_cb(stack, stacksize, data)}
          /\ dcref' = [pid |-> ProcPid, cleanup |-> TRUE]
          /\ dckid' = "running"
          /\ UNCHANGED <<dcbox, dcstack>>
    /\ dcpc' = "returned"
    /\ UNCHANGED dccall
    /\ UNCHANGED notDc

\* the child starts on the new stack: the trampoline reads the box
clone_child_enter ==
    /\ dckid = "running"
    /\ dcbox = "allocated"
    /\ dcstack = "mapped"
    /\ dckid' = "entered"
    /\ UNCHANGED <<dcpc, dccall, dcbox, dcstack, dcref>>
    /\ UNCHANGED notDc

\* the child returns from its entry function
clone_child_exit ==
    /\ dckid = "entered"
    /\ dckid' = "zombie"
    /\ UNCHANGED <<dcpc, dccall, dcbox, dcstack, dcref>>
    /\ UNCHANGED notDc

\* child_ref::wait() by the owner of a true child_ref: waitpid, then
\* cleanup<ArgP>: delete args_copy, munmap(stack), delete data
clone_ref_wait ==
    /\ dcpc = "returned"
    /\ dcref.pid > 0
    /\ dckid = "zombie"
    /\ dckid' = "reaped"
    /\ dcbox' = IF dcref.cleanup THEN "freed" ELSE dcbox
    /\ dcstack' = IF dcref.cleanup THEN "unmapped" ELSE dcstack
    /\ dcref' = [dcref EXCEPT !.cleanup = FALSE]
    /\ dcpc' = "waited"
    /\ UNCHANGED dccall
    /\ UNCHANGED notDc

NextDc ==
    \/ clone_new_data
    \/ do_clone_mmap
    \/ do_clone_clone
    \/ clone_child_enter
    \/ clone_child_exit
    \/ clone_ref_wait

SpecDc == InitDc /\ [][NextDc]_vars

\* ------------------------------------------------------------------------
\* Clone group: next-state relation
\* ------------------------------------------------------------------------
ParentStep ==
    \/ uvclone_clone
    \/ uvclone_wait
    \/ uvclone_set_uid
    \/ uvclone_setgroups
    \/ uvclone_set_gid
    \/ uvclone_errno
    \/ uvclone_post
    \/ nsproc_join_parent_user
    \/ nsproc_join_parent_pid
    \/ join_vclone
    \/ unshare_single_unshare
    \/ unshare_single_uid
    \/ unshare_single_setgroups
    \/ unshare_single_gid

ChildStep ==
    \/ uvclone_entry_post
    \/ uvclone_entry_wait
    \/ vclone_entry
    \/ overlayns_step
    \/ overlayns_exec
    \/ nsproc_create_fail
    \/ nsproc_create_ok
    \/ exec_app_chdir
    \/ exec_app_exec
    \/ pid1
    \/ nsproc_join_child

NextClone == ParentStep \/ ChildStep

InitClone == InitCloneGroup /\ IdleCref /\ IdleFd /\ IdleSem /\ IdleCv /\ IdleSn /\ IdleReap /\ IdleOv /\ IdleUs /\ IdlePo /\ IdleIo /\ IdleMd /\ IdleRl /\ IdleCp /\ IdleMc /\ IdlePv /\ IdleMs /\ IdleSs /\ IdleXd /\ IdleDc

SpecClone == InitClone /\ [][NextClone]_vars

\* the scheduler runs every runnable process: parent and child each keep
\* taking their enabled steps
SpecCloneFair == SpecClone /\ WF_vars(ParentStep) /\ WF_vars(ChildStep)

\* ========================================================================
\* Claims about the clone group
\* ========================================================================
IsWrite(e) == e.ev \in {"uid_map", "setgroups", "gid_map"}

\* the id-map write attempts so far, in order
Writes == SelectSeq(log, IsWrite)

Happened(e) == \E i \in DOMAIN log : log[i].ev = e

WriteFailed == \E i \in DOMAIN log : IsWrite(log[i]) /\ ~log[i].ok

\* positions of the child inside (or after) the closure
ClosurePcs == {"ov_recipe", "nc_start", "jc_start", "ea_chdir", "ea_exec",
               "pid1", "execd", "exited", "returned", "aborted"}

\* positions at which the child's control path has ended
EndPcs == {"execd", "exited", "returned", "aborted"}

\* C1: in uvclone the child posts before the parent's first id-map write,
\* every write attempt precedes the parent's post, and the closure starts
\* only after the parent's post (child yields -> parent writes -> parent
\* posts -> child proceeds); the parent is past its writes whenever the
\* child is inside the closure.
C1_HandshakeOrder ==
    caller \in UvCallers =>
        /\ \A i \in DOMAIN log : IsWrite(log[i]) =>
              \E j \in 1..(i - 1) : log[j].ev = "child_post"
        /\ \A i \in DOMAIN log : log[i].ev = "parent_post" =>
              \A w \in DOMAIN log : IsWrite(log[w]) => w < i
        /\ \A i \in DOMAIN log : log[i].ev = "fn_start" =>
              \E j \in 1..(i - 1) : log[j].ev = "parent_post"
        /\ cpc \in ClosurePcs => ppc = "p_ret"
        /\ ppc \in {"uv_set_uid", "uv_setgroups", "uv_set_gid", "uv_errno"} =>
              cpc = "c_yield_wait"

C1_Witness ==
    /\ caller \in UvCallers
    /\ Happened("fn_start")
    /\ Len(Writes) = 3

\* C2: under fair scheduling a successful clone in uvclone leads to the
\* parent returning and to the child starting its closure, whatever the
\* id-map writes do; after a failed clone or stack mmap the parent is at
\* its return and never waited on the semaphore.
C2_HandshakeLive ==
    /\ (caller \in UvCallers /\ cpid > 0) ~> (ppc = "p_ret")
    /\ (caller \in UvCallers /\ cpid > 0) ~> Happened("fn_start")
    /\ [](caller \in UvCallers /\ ppc # "uv_clone" /\ cpid <= 0 =>
             ppc = "p_ret" /\ ~Happened("parent_wake"))

C2_Witness ==
    /\ caller \in UvCallers
    /\ ppc = "p_ret"
    /\ Happened("fn_start")
    /\ WriteFailed

WriteOrder == <<"uid_map", "setgroups", "gid_map">>

\* C3: in uvclone (writing the files of the child's pid) and in
\* unshare_single (writing the calling process's own files) the id-map
\* writes are attempted in the order uid_map, setgroups, gid_map, and no
\* write is attempted after one that failed.
C3_IdmapOrder ==
    /\ Len(Writes) <= Len(WriteOrder)
    /\ \A i \in 1..Len(Writes) :
          /\ Writes[i].ev = WriteOrder[i]
          /\ i < Len(Writes) => Writes[i].ok
          /\ caller \in UvCallers => cpid > 0 /\ Writes[i].tgt = cpid
          /\ caller = "unshare_single" => Writes[i].tgt = 0
    /\ Writes # <<>> => caller \in UvCallers \cup {"unshare_single"}

C3_Witness ==
    /\ caller \in UvCallers
    /\ ppc = "p_ret"
    /\ Writes = <<EvTo("uid_map", TRUE, cpid), EvTo("setgroups", FALSE, cpid)>>

\* C4 as claimed: a non-zero int from uvclone means an id-map write failed
\* and the child_ref holds a live, already posted child.
C4_NonzeroOnlyWriteFailed ==
    caller \in UvCallers /\ ppc = "p_ret" /\ res # 0 =>
        /\ WriteFailed
        /\ cpid > 0 /\ cpc # "none"
        /\ Happened("parent_post")

\* C4 amended: a non-zero int from uvclone means either that the clone (or
\* the stack mmap) failed, and then it is EINVAL, the child_ref is empty and
\* no write was attempted; or that an id-map write failed, and then the
\* child_ref holds a live child that the parent has already posted.
C4_NonzeroCloneOrWriteFailed ==
    caller \in UvCallers /\ ppc = "p_ret" /\ res # 0 =>
        \/ /\ cpid <= 0 /\ cpc = "none"
           /\ res = EINVAL
           /\ Writes = <<>>
        \/ /\ WriteFailed
           /\ cpid > 0 /\ cpc # "none"
           /\ Happened("parent_post")

C4_Witness ==
    /\ caller \in UvCallers
    /\ ppc = "p_ret"
    /\ res # 0
    /\ cpid > 0
    /\ WriteFailed

C5_CleanupOnce ==
    /\ [](\A k \in Kids : invoked[k] <= 1)
    /\ [](lastOp.op \in {"wait", "poll"} /\ lastOp.done /\ lastOp.k # 0 =>
             invoked[lastOp.k] = 1)
    /\ [][lastOp'.op = "poll" /\ ~lastOp'.done => invoked' = invoked]_vars

\* a closure that travelled through a move and was then run by poll()
C5_Witness ==
    /\ lastOp.op = "poll"
    /\ lastOp.done
    /\ lastOp.k # 0
    /\ invoked[lastOp.k] = 1
    /\ \E s \in Refs : cref[s].live /\ hist[s] = "moved_from"

\* C6: the destructor and the move assignment print the warning exactly
\* when the object (destroyed or assigned over) still owns a cleanup
\* closure that has not run; an object that was waited on, polled to
\* completion, moved from or created without cleanup never prints it, and
\* no other operation prints it.
C6_WarnIffOwns ==
    /\ lastOp.op \in {"destroy", "assign"} =>
          /\ lastOp.warned <=> lastOp.hist = "created_cleanup"
          /\ lastOp.warned <=> (lastOp.k # 0 /\ invoked[lastOp.k] = 0)
          /\ lastOp.hist \in {"waited", "polled_done", "moved_from", "created_bare"}
                => ~lastOp.warned
    /\ lastOp.op \notin {"destroy", "assign"} => ~lastOp.warned

C6_Witness ==
    /\ lastOp.op = "assign"
    /\ lastOp.warned
    /\ \E k \in Kids : invoked[k] = 1

\* ========================================================================
\* Claims about ko::fd::fd
\* ========================================================================
\* C8: after every sequence of operations each fd object holds a negative
\* value or a descriptor that is open, the source of a move is empty, and no
\* wrapper has called ::close on a descriptor that was already closed.
C8_FdOwnsOpenDescriptor ==
    /\ \A s \in FdObjs : fdobj[s].live =>
          fdobj[s].fd < 0 \/ fdobj[s].fd \in openFds
    /\ lastFdOp.op \in {"move_ctor", "move_assign", "move"} =>
          fdobj[lastFdOp.src].fd < 0
    /\ ~badClose

\* ========================================================================
\* Claims about sync::semapair
\* ========================================================================
LiveOn == {h \in Handles : hnd[h].state = "live" /\ hnd[h].ptr = 1}

\* C9: a post through endpoint A (offset 0) raises exactly the semaphore
\* that a wait through endpoint B (offset 1) takes from, and the other way
\* round; no endpoint posts to the semaphore it waits on, so the waits that
\* returned on one endpoint never outnumber the posts made on the other.
C9_PostWakesPeer ==
    /\ PostIndex(OffsetParent) = WaitIndex(OffsetChild)
    /\ PostIndex(OffsetChild) = WaitIndex(OffsetParent)
    /\ \A o \in 0..1 : PostIndex(o) # WaitIndex(o)
    /\ ~crashed =>
          /\ waits[OffsetParent] <= posts[OffsetChild]
          /\ waits[OffsetChild] <= posts[OffsetParent]
          /\ psem[WaitIndex(OffsetParent)] = posts[OffsetChild] - waits[OffsetParent]
          /\ psem[WaitIndex(OffsetChild)] = posts[OffsetParent] - waits[OffsetChild]

C9_Witness ==
    /\ waits[OffsetParent] = 1
    /\ waits[OffsetChild] = MaxPosts
    /\ posts[OffsetParent] = MaxPosts
    /\ \E h \in Handles \ {1, 2} : hnd[h].state = "live" /\ hnd[h].ptr = 1

\* C10: the pair's reference count is the number of live handles that point
\* at it; the storage is released once, by the destructor that took the
\* count from one to zero and never while a handle points at it; a shared
\* pair is unmapped and a private one deleted.
C10_RefcountRelease ==
    /\ pair.state = "alloc" =>
          /\ pair.refs = Cardinality(LiveOn)
          /\ releases = 0
          /\ pair.refs = 0 => \E h \in Handles : hnd[h].state = "dying" /\ hnd[h].v = 1
    /\ pair.state \in {"unmapped", "deleted"} =>
          /\ releases = 1
          /\ LiveOn = {}
          /\ pair.refs = 0
          /\ \A h \in Handles : hnd[h].state = "dying" => hnd[h].v # 1
    /\ pair.state = "unmapped" => pair.shared
    /\ pair.state = "deleted" => ~pair.shared
    /\ Cardinality({h \in Handles : hnd[h].state = "dying" /\ hnd[h].v = 1}) <= 1

C10_Witness ==
    /\ pair.state = "unmapped"
    /\ releases = 1
    /\ \E h \in Handles : hnd[h].state = "live" /\ hnd[h].ptr = 0

\* ========================================================================
\* Claims about ko::util::cvshort
\* ========================================================================
\* the calls of the chain whose callable ran and returned a non-zero code
CvFailed == {i \in 1..Len(cvLog) : cvLog[i].called /\ cvLog[i].code # 0}

C12_RecipeOrder ==
    caller = "overlayns" =>
       /\ \A i \in 1..Len(stepLog) : stepLog[i].idx = i - 1
       /\ \A i \in 1..Len(stepLog) :
             stepLog[i].code # 0 =>
                /\ i = Len(stepLog)
                /\ ~Happened("exec")
                /\ cpc = "returned"
                /\ cret = stepLog[i].code
       /\ Happened("exec") =>
             /\ Len(stepLog) = cfg.nsteps
             /\ \A i \in 1..Len(stepLog) : stepLog[i].code = 0 /\ ~stepLog[i].threw

C12_Witness ==
    /\ caller = "overlayns"
    /\ cfg.nsteps = MaxRecipe
    /\ Len(stepLog) = 2
    /\ stepLog[1].code = 0
    /\ stepLog[2].code = ErrMountpoint
    /\ cret = ErrMountpoint

\* ========================================================================
\* Claims about the steamns join path
\* ========================================================================
\* the order in which the join path's operations may appear
JoinRank(e) ==
    CASE e = "setns_p_user" -> 1
      [] e = "setns_p_pid" -> 2
      [] e = "fn_start" -> 3
      [] e = "setns_c_mnt" -> 4
      [] e = "chdir" -> 5
      [] e = "exec" -> 6
      [] OTHER -> 0

Succeeded(e) == \E i \in DOMAIN log : log[i].ev = e /\ log[i].ok

Failed(e) == \E i \in DOMAIN log : log[i].ev = e /\ ~log[i].ok

\* C13: on the join path the parent calls setns on user, then on pid, then
\* clones the child, which calls setns on mnt and then execs; no child is
\* cloned after a failed parent setns, the child does not exec after a failed
\* setns on mnt, and the child never calls setns on user.
C13_JoinOrder ==
    caller = "steamns_join" =>
       /\ \A i \in DOMAIN log : JoinRank(log[i].ev) > 0
       /\ \A i, j \in DOMAIN log : i < j => JoinRank(log[i].ev) < JoinRank(log[j].ev)
       /\ cpc # "none" => Succeeded("setns_p_user") /\ Succeeded("setns_p_pid")
       /\ Failed("setns_p_user") \/ Failed("setns_p_pid") =>
             cpc = "none" /\ ppc = "p_ret" /\ cpid = -1
       /\ Happened("setns_p_pid") => Succeeded("setns_p_user")
       /\ Happened("setns_c_mnt") => cpc # "none" /\ Happened("fn_start")
       /\ Happened("exec") \/ Happened("chdir") => Succeeded("setns_c_mnt")
       /\ Failed("setns_c_mnt") => cpc = "returned" /\ cret # 0

C13_Witness ==
    /\ caller = "steamns_join"
    /\ Succeeded("setns_p_user")
    /\ Succeeded("setns_p_pid")
    /\ Succeeded("setns_c_mnt")
    /\ Succeeded("exec")
    /\ cpc = "execd"

\* ---------------------------------------------------------------------
\* steamns main: the namespace symlink
\* ---------------------------------------------------------------------
\* C14: when the join path finds the symlink dangling, steamns removes
\* the symlink and returns ENOENT; it starts no process (no fork, no
\* clone) and calls no setns.
C14_StaleRefReturnsEnoent ==
    staleSeen =>
        /\ mpc = "done" => /\ link = "absent"
                           /\ mret \in {ENOENT, 0 - ENOENT}
        /\ mdid \subseteq {"remove_stale"}

\* C15: in create mode the symlink is made only after the child has
\* posted its setup report, and a driver that made it returns only after
\* the child has exited and the symlink has been removed.
C15_LinkAfterReport ==
    "create_link" \in mdid =>
        /\ mposted
        /\ mpc = "done" => /\ mchild = "exited"
                           /\ "remove_link" \in mdid
                           /\ link = "absent"

\* ---------------------------------------------------------------------
\* pid1: termination
\* ---------------------------------------------------------------------
AllExited == Pid1Runs /\ alive = 0 /\ spawned = MaxProcs

\* C16: pid1 returns 0 only at a check that counted at most one numeric
\* entry in /proc; every check follows a select wake-up, and after a
\* SIGCHLD wake-up the drain of zombies; once every other process of the
\* namespace has exited, pid1 eventually returns.
C16_ReaperTerminates ==
    /\ [](rpc = "returned" /\ rret = 0 => lastCount <= 1)
    /\ [](rpc = "count" => woke # "none")
    /\ [](rpc = "count" /\ woke = "sigchld" => drained)
    /\ (AllExited ~> rpc = "returned")

\* ---------------------------------------------------------------------
\* overlayns main: parse errors and temporary directories
\* ---------------------------------------------------------------------
\* C17: a mount spec with fewer than three comma-separated fields gives
\* the parse error 'Incomplete mount spec', adds no step to the recipe
\* and makes overlayns exit with 33 without cloning a child.
C17_IncompleteMountSpec ==
    [][(shortSpec' /\ ~shortSpec) =>
            /\ perr' = IncompleteMsg
            /\ recipe' = recipe
            /\ opc' = "exited"
            /\ oret' = ExitParse
            /\ ~cloned']_vars

\* C18: when overlayns has exited, on whichever path, no temporary
\* directory it created for a 'tmp' overlay option is left on disk.
C18_TmpRemoved == opc = "exited" => tmpdirs = {}

\* ---------------------------------------------------------------------
\* unshare_single: what is written
\* ---------------------------------------------------------------------
WriteFiles == <<"uid_map", "setgroups", "gid_map">>

\* C19: unshare_single unshares with the given flags plus CLONE_NEWUSER
\* and then writes, in this order, a one-entry uid_map from uid to the
\* effective uid the caller had before the unshare, "deny" to setgroups,
\* and a one-entry gid_map from gid to the effective gid it had before;
\* a failed unshare returns non-zero with nothing written; 0 is returned
\* only after all three writes succeeded.
C19_UnshareSingle ==
    /\ Len(uwrites) <= 3
    /\ \A i \in 1..Len(uwrites) :
        /\ uwrites[i].file = WriteFiles[i]
        /\ i < Len(uwrites) => uwrites[i].ok
        /\ uwrites[i].file = "uid_map" =>
              uwrites[i].content =
                <<[start |-> ucfg.uid, host_start |-> host.euid, count |-> 1]>>
        /\ uwrites[i].file = "gid_map" =>
              uwrites[i].content =
                <<[start |-> ucfg.gid, host_start |-> host.egid, count |-> 1]>>
    /\ uwrites # <<>> => unshared = ucfg.flags \cup {"CLONE_NEWUSER"}
    /\ upc \in {"uid_map", "setgroups", "gid_map"} =>
          unshared = ucfg.flags \cup {"CLONE_NEWUSER"}
    /\ (upc = "returned" /\ unshared = {}) => (ures # 0 /\ uwrites = <<>>)
    /\ (upc = "returned" /\ ures = 0) =>
          /\ Len(uwrites) = 3
          /\ \A i \in 1..3 : uwrites[i].ok
          /\ cred = [euid |-> ucfg.uid, egid |-> ucfg.gid]

C19_Witness ==
    /\ upc = "returned"
    /\ ures = 0
    /\ ucfg.uid # host.euid
    /\ ucfg.flags = {"CLONE_NEWNS"}
    /\ Len(uwrites) = 3

\* ---------------------------------------------------------------------
\* popen_impl: descriptors left in the parent
\* ---------------------------------------------------------------------
\* the descriptors of the parent that refer to an end of the two pipes
OpenEnds == {n \in PFds : ptab[n] \in PipeEnds}

\* C20: when popen_impl has returned with a child, the parent holds the
\* read end of the child's stdout pipe and the write end of its stdin
\* pipe, which are the returned pipe's rfd and wfd, and no other end; when
\* it has returned without a child, the returned pipe is null and no end
\* of either pipe is open. Descriptors the caller had are left as they were.
C20_PopenDescriptors ==
    ppos = "returned" =>
        /\ \A n \in PFds : (ptab[n] = "other") <=> (ptab0[n] = "other")
        /\ IF popid > 0
           THEN /\ ~popipe.null
                /\ popipe.rfd # popipe.wfd
                /\ OpenEnds = {popipe.rfd, popipe.wfd}
                /\ ptab[popipe.rfd] = "stdout_r"
                /\ ptab[popipe.wfd] = "stdin_w"
           ELSE /\ popipe.null
                /\ OpenEnds = {}

C20_Witness ==
    /\ ppos = "returned"
    /\ popid > 0
    /\ ptab0[0] = "closed"
    /\ ptab[popipe.rfd] = "stdout_r"

\* ---------------------------------------------------------------------
\* ko::fd::read / ko::fd::write: what a short count means
\* ---------------------------------------------------------------------
\* C21: read and write return the total the syscalls transferred, never
\* more than size, and a total below size only after the syscall reported
\* end-of-file or zero progress (errno 0) or an error (errno non-zero):
\* a partial transfer alone never ends the loop.
C21_RetryUntilDone ==
    (iopc = "returned" /\ iokind \in {"read", "write"}) =>
        /\ have = moved
        /\ have <= iosize
        /\ have < iosize =>
            \/ iolast = "eof" /\ ioerrno = 0
            \/ iolast = "error" /\ ioerrno # 0

C21_Witness ==
    /\ iopc = "returned"
    /\ iokind = "write"
    /\ iosize = MaxSize
    /\ have = 2
    /\ iolast = "error"

NonDirOnPath ==
    \E n \in 1..Len(mdpath) :
        Walk(mddirs0, mdfiles, mdpath, n, 1, <<>>).st \in {"file", "ENOTDIR"}

\* C23: a non-negative result of makedirs is the number of directories it
\* created, and then every prefix of the path is a directory; -1 with
\* nothing created when a prefix is a non-directory; never a non-negative
\* result after the creation of a parent failed.
C23_MakedirsCount ==
    mdphase = "returned" =>
        /\ mdval >= 0 =>
            /\ mdval = Cardinality(mddirs \ mddirs0)
            /\ \A n \in 0..Len(mdpath) : Stat(n).st = "dir"
        /\ NonDirOnPath => (mdval = -1 /\ mddirs = mddirs0)
        /\ mdfailed => mdval < 0

\* ---------------------------------------------------------------------
\* readlink: long targets, and what readlink_or_path hands back
\* ---------------------------------------------------------------------
ReadlinkDone == rlpc \in {"or_path", "returned"}

\* C24: when no syscall failed, readlink returns the whole target of the
\* symlink, whatever its length: shorter than, equal to or longer than
\* the static buffer.
C24_ReadlinkComplete ==
    (ReadlinkDone /\ rlfile.kind = "symlink" /\ ~rlfailed) =>
        /\ ~rltarget.empty
        /\ rltarget.len = rlfile.len

\* C25 as stated: the path for an existing non-symlink, the target for a
\* symlink, the empty path in every other case, a missing path included.
C25_OrPathEmptyOnMissing ==
    rlpc = "returned" =>
        /\ rlfile.kind = "other" => rlres = "path"
        /\ (rlfile.kind = "symlink" /\ ~rlfailed) => rlres \in {"target", "joined"}
        /\ (rlfile.kind = "missing" \/ rlfailed) => rlres = "empty"

\* C25 amended: the path for an existing non-symlink; for a symlink what
\* readlink returned, behind the path's parent when it is relative; for
\* a missing path the path when notexist_ok and the empty path otherwise;
\* the empty path after any other error.
C25_OrPath ==
    rlpc = "returned" =>
        /\ rlfile.kind = "other" => rlres = "path"
        /\ (rlfile.kind = "symlink" /\ ~rlfailed) =>
              rlres = IF rlfile.rel THEN "joined" ELSE "target"
        /\ rlfile.kind = "missing" => rlres = IF rlok THEN "path" ELSE "empty"
        /\ rlfailed => rlres = "empty"

C25_Witness ==
    /\ rlpc = "returned"
    /\ rlfile.kind = "missing"
    /\ rlok
    /\ rlres = "path"

\* ---------------------------------------------------------------------
\* fcopy: the order of the mechanisms; copy0: the reflink
\* ---------------------------------------------------------------------
\* the bytes a mechanism is asked for are those no earlier one copied
RemainingOnly ==
    cppc \in {"copy_file_range", "sendfile", "fcopy_raw"} =>
        cplen = cpsize - cpcopied

C27_CloneTrue ==
    (cppc = "returned" /\ cpclone = "cloned") => cpret = TRUE

\* ---------------------------------------------------------------------
\* child_ref: cleanup and the result of waitpid
\* ---------------------------------------------------------------------
\* C28: wait() and poll() call the cleanup closure only in a call whose
\* waitpid reported a terminated child, never in one whose waitpid
\* returned an error.
C28_CleanupAfterTermination ==
    [][(\E k \in Kids : invoked'[k] > invoked[k]) =>
          \E j \in Kids : kids[j] = "zombie" /\ kids'[j] = "reaped"]_vars

\* ---------------------------------------------------------------------
\* mount_core: order, conditions, first failure
\* ---------------------------------------------------------------------
\* the position of a label in the order root, proc, sys, dev, tmp, run
LabelIndex(l) == CHOOSE i \in 1..Len(MountLabels) : MountLabels[i] = l

McWanted(i) ==
    IF i = 1 THEN ~mcenv.mounted ELSE MountDirs[i] \in mcenv.dirs

McReturned == mcpc = Len(MountLabels) + 2

PvAt(label) == {i \in 1..Len(pvlog) : pvlog[i].label = label}

PivotLabels == {"pivot_root", "chdir_root", "umount_oldroot"}

\* C30: pivot_root makes the pivot_root syscall, then chdir("/"), then
\* umount2(old_root, MNT_DETACH) only when keep_old is false, each only
\* when the one before succeeded; in nsproc_create the pivot is made
\* only after every mount step before it succeeded, no mount step runs
\* after it, and a run without failure makes all of them.
C30_PivotLast ==
    /\ \A i \in PvAt("pivot_root") :
          /\ \A j \in 1..(i - 1) :
                pvlog[j].code = 0 /\ pvlog[j].label \notin PivotLabels
          /\ \A j \in (i + 1)..Len(pvlog) :
                pvlog[j].label \in PivotLabels \ {"pivot_root"}
    /\ \A i \in PvAt("chdir_root") :
          i > 1 /\ pvlog[i - 1] = [label |-> "pivot_root", code |-> 0]
    /\ \A i \in PvAt("umount_oldroot") :
          /\ ~pvconf.keep_root
          /\ i > 1 /\ pvlog[i - 1] = [label |-> "chdir_root", code |-> 0]
          /\ i = Len(pvlog)
    /\ (pvpc = "done" /\ pvret = 0 /\ pvconf.mounts) =>
          /\ PvAt("pivot_root") # {}
          /\ PvAt("chdir_root") # {}
          /\ PvAt("umount_oldroot") # {} <=> ~pvconf.keep_root
    /\ (pvpc = "done" /\ ~pvconf.mounts) => pvlog = <<>>

C30_Witness ==
    /\ pvpc = "done"
    /\ pvret = 0
    /\ ~pvconf.keep_root
    /\ Len(pvlog) = 6
    /\ pvlog[6] = [label |-> "umount_oldroot", code |-> 0]

\* ---------------------------------------------------------------------
\* mount_spec::execute: the mkdir policy
\* ---------------------------------------------------------------------
MsExisted == mspoint \in {"dir", "file"} /\ (mslog = <<>> \/ mslog[1] = "mount")

MsEnded == mspc \in {"returned", "threw"}

\* C31: execute returns 41 without a mount when the mountpoint is missing
\* and mkdir is never, and when it exists and mkdir is require_this or
\* require_all; when it is missing and mkdir is maybe_* or require_* the
\* directory is created first (create_directories for maybe_all and
\* require_all, create_directory for the other two) and the mount
\* follows; in every other case the mount is made and nothing is created.
C31_MkdirPolicy ==
    MsEnded =>
        IF ~MsExisted /\ msspec.mkdir = "never"
          THEN mslog = <<>> /\ msret = ErrMountpoint
        ELSE IF MsExisted /\ msspec.mkdir \in {"require_this", "require_all"}
          THEN mslog = <<>> /\ msret = ErrMountpoint
        ELSE IF ~MsExisted
          THEN /\ mslog[1] = IF msspec.mkdir \in {"maybe_all", "require_all"}
                             THEN "create_directories" ELSE "create_directory"
               /\ mspc = "returned" => mslog[2] = "mount" /\ Len(mslog) = 2
               /\ mspc = "threw" => Len(mslog) = 1
        ELSE mslog = <<"mount">> /\ mspc = "returned"

C31_Witness ==
    /\ mspc = "returned"
    /\ msspec.mkdir = "require_all"
    /\ mslog = <<"create_directories", "mount">>
    /\ msret = 0

\* ---------------------------------------------------------------------
\* parse_overlay_spec: the recipe it builds
\* ---------------------------------------------------------------------
\* C32: for every combination of overlay options, parse_overlay_spec
\* appends to the recipe only when a lowerdir is resolved (given, or
\* through shadow) and upperdir and workdir are both resolved or both
\* absent, and otherwise returns errors and leaves the recipe as it is;
\* with copyfrom it appends one Copy step right before the overlay Mount
\* step; and it does not end abnormally when copyfrom comes without an
\* upperdir.
C32_OverlayRecipe ==
    [][ospec' # ospec =>
          LET o == ospec'.o
              lower == o.lowerdir \/ o.shadow
              upper == o.tmp \/ o.upperdir
              work == o.tmp \/ o.workdir
              complete == lower /\ (upper <=> work)
          IN  /\ recipe' # recipe => complete
              /\ ~complete => recipe' = recipe /\ opc' \in {"exited", "crashed"}
              /\ (complete /\ opc' = "getopt") =>
                     recipe' = recipe \o (IF o.copyfrom THEN <<"copy">> ELSE <<>>)
                                      \o <<"overlay">>
              /\ (o.copyfrom /\ ~upper) => opc' # "crashed"]_vars

\* ---------------------------------------------------------------------
\* str_split: termination with escaped commas
\* ---------------------------------------------------------------------
\* C33: str_split(s, ',') returns for every string s, also for one whose
\* last comma is escaped by a single backslash.
C33_SplitTerminates == <>(sspc = "returned")

\* ---------------------------------------------------------------------
\* mount_gui: when the X11 bind is narrowed
\* ---------------------------------------------------------------------
\* DISPLAY has the form ':' followed by one or more digits
NumericDisplay ==
    /\ xenv.display # Unset
    /\ Len(xenv.display) >= 2
    /\ xenv.display[1] = ":"
    /\ \A i \in 2..Len(xenv.display) : xenv.display[i] = "0"

\* C34: unless KONS_BIND_X11 is "all", frags[0] becomes the socket X<N>
\* exactly when DISPLAY is ':' followed by one or more digits, and for
\* every other DISPLAY the whole directory stays bound and the warning
\* is printed; with KONS_BIND_X11=all the directory stays bound and no
\* warning is printed.
C34_NarrowIffNumeric ==
    xpc = "done" =>
        IF xenv.mode \in {<<"all">>, <<"ALL">>}
        THEN xfrag = X11Dir /\ ~xwarned
        ELSE IF NumericDisplay
        THEN /\ xfrag = X11Dir \o <<"/X">> \o Tail(xenv.display)
             /\ ~xwarned
        ELSE xfrag = X11Dir /\ xwarned

\* ---------------------------------------------------------------------
\* popen_impl: the child's descriptors at the call of exec_fn
\* ---------------------------------------------------------------------
\* C35: when the child calls exec_fn, its descriptor 0 is the read end of
\* the first pipe and its descriptor 1 the write end of the second, and
\* no other descriptor of the child is an end of either pipe, whatever
\* numbers pipe2 handed out.
C35_ChildStdio ==
    [][ppos = "child_exec" =>
          /\ ctab'[0] = End(0, 0)
          /\ ctab'[1] = End(1, 1)
          /\ \A n \in PFds \ {0, 1} : ctab'[n] \notin PipeEnds]_vars

\* ---------------------------------------------------------------------
\* fcopy: termination
\* ---------------------------------------------------------------------
\* C36: copy0 and the fcopy it calls return for every length and every
\* sequence of syscall results, also when copy_file_range or sendfile
\* returns 0 while len is still positive.
C36_FcopyTerminates == <>(cppc = "returned")

\* ---------------------------------------------------------------------
\* do_clone: one owner for the box and the stack
\* ---------------------------------------------------------------------
\* C37: when do_clone has returned a true child_ref, that child_ref holds
\* the cleanup closure and with it the box and the stack mapping, both
\* still in place; when it has returned a false one (mmap failed, or
\* clone failed), the child_ref holds no cleanup, the box has been freed
\* and no stack mapping is left.
C37_OneOwner ==
    dcpc = "returned" =>
        IF dcref.pid > 0
        THEN dcref.cleanup /\ dcbox = "allocated" /\ dcstack = "mapped"
        ELSE ~dcref.cleanup /\ dcbox = "freed" /\ dcstack # "mapped"

\* ---------------------------------------------------------------------
\* nsproc_create: the report to the driver
\* ---------------------------------------------------------------------
\* C38: with a report future given, the driver that waits on it is
\* released in every run of nsproc_create.
C38_DriverReleased == <>(pvfut.given => pvfut.driver = "released")

\* what does hold: whenever nsproc_create has passed its report, one
\* value was posted, 1 after a failed chain and 0 otherwise, and the
\* application or pid1 starts only after it
C38_OnePostWhenReported ==
    (pvfut.given /\ pvpc \in {"done", "xerror", "exec_app", "pid1"}) =>
        /\ Len(pvfut.posts) = 1
        /\ pvfut.posts[1] = IF pvcv.state # 0 THEN 1 ELSE 0

\* ---------------------------------------------------------------------
\* steamns -D: the joiner and the daemon it spawned
\* ---------------------------------------------------------------------
\* C39: the process that waits on the shared future for the daemon it
\* spawned is released in every run.
C39_JoinerReleased == (pjoin.state = "waiting") ~> (pjoin.state # "waiting")

\* what does hold: at most one value is posted, the joiner opens
\* /proc/<pid>/ns only after the post of a pid, and -1 is posted only
\* when the clone failed
C39_OpenAfterPost ==
    /\ Len(pjoin.posts) <= 1
    /\ pjoin.state \in {"released", "open"} => pjoin.posts = <<ProcPid>>
    /\ pjoin.state = "dead" => (pjoin.posts = <<-1>> /\ mproc \in ProcFailed)

\* what does not: a pid is posted only after the child reported its setup
C39_PidAfterReport == (pjoin.posts = <<ProcPid>>) => mposted

====
